---- MODULE Spec2Model ----
(***************************************************************************)
(* A model of the OTel SIG tracker: the SQLite cache store                 *)
(* (internal/store), the analysis chain (internal/analysis) and the        *)
(* pipeline orchestrator (internal/pipeline: FetchOnly, AnalyzeOnly,       *)
(* fetchSIG, analyzeSIG) with its errgroup worker pool.                    *)
(*                                                                         *)
(* Spec       the pipeline: one FetchOnly or one AnalyzeOnly invocation    *)
(*            over the fixture catalog, with a cancellable context.        *)
(* SpecMemo   AnalyzeOnly run twice over one group, with an LLM whose      *)
(*            replies vary, to exercise the analysis cache.                *)
(* SpecStore  sequences of upserts on the store tables.                    *)
(***************************************************************************)
EXTENDS Integers, Sequences, FiniteSets, TLC

VARIABLES
    \* ---- the store (internal/store): one set of rows per table
    sigs, meeting_notes, video_transcripts, slack_messages, analysis_cache,
    clock,          \* CURRENT_TIMESTAMP, in whole seconds
    \* ---- history of the store operations (SpecStore)
    lastOp, prevOp, preTables, nops,
    \* ---- cache keys computed so far (SpecKey)
    keys,
    \* ---- the store handle's connections (SpecPool)
    dbPath,         \* "file" or ":memory:"
    nconns,         \* connections the database/sql pool has opened
    connBusy,       \* connections running a statement
    wop,            \* per worker: the store call in progress, if any
    putDone,        \* cache keys whose PutAnalysisCache has returned nil
    missed,         \* keys a get did not find though their put had returned
    \* ---- Store.migrate (SpecMigrate)
    applied,        \* migrations whose schema change is in the database
    versions,       \* rows of schema_version
    migI,           \* the loop variable i of migrate
    openRes,        \* "none" while New runs, then "ok" or "err"
    opens,          \* calls of New so far
    \* ---- the chat adapter (SpecSlack)
    slackAPI,       \* the chat fetch's surroundings: the pages the API
                    \* serves, their cursors, whether the groups share a
                    \* channel, whether the store's upsert can fail
    slackFlaky,     \* whether a request or a limiter wait can fail
    tokens,         \* tokens in the rate limiter's bucket (burst 1)
    sPc,            \* per chat task: position in FetchMessages
    sPage,          \* per chat task: the history page to request next
    allMessages,    \* per chat task: the messages collected so far
    sIdx,           \* per chat task: index of the store loop
    sAcquired,      \* per chat task: holds an acquisition not yet spent
    sFetches,       \* per chat task: calls of FetchMessages that returned
    sUnlicensed,    \* requests sent without an acquisition of their own
    sAfterFirst,    \* per chat task: the table when its first fetch returned
    sWrote,         \* per chat task: its current call has upserted a row
    sHistFailed,    \* per chat task: a history request of its call failed
    \* ---- the transcript adapter (SpecZoom)
    fetch_log,      \* the fetch_log table, in insertion order
    poolTimeout,    \* browser.Pool.timeout, in seconds
    zPc,            \* per transcript task: position in FetchTranscript
    zRec,           \* per transcript task: the recording being fetched
    zCtxTimeout,    \* per transcript task: the timeout NewContext applied
    zCalls,         \* calls of FetchTranscript so far
    zLast,          \* per transcript task: what its last call did
    \* ---- parseVTT (SpecVTT)
    vttIn,          \* the lines of the content consumed so far
    textLines,      \* the lines retained
    lastSpeaker,    \* speaker of the line appended last
    \* ---- parseRelevanceItems (SpecRelevance)
    relInput,       \* the sections the LLM output was written from
    relLines,       \* the lines of the output not yet scanned
    current,        \* the section the scan is in
    high, medium, low,  \* the items collected
    \* ---- normalizeSIGName (SpecName)
    sigName,        \* a display name, as a sequence of characters
    normalized,     \* normalizeSIGName(sigName), once computed
    \* ---- ParseLookback (SpecLookback)
    lookback,       \* the lookback string, as numbers and unit letters
    parsed,         \* ParseLookback(lookback), once computed
    \* ---- the pipeline invocation
    cfg,            \* config.Config: Workers, SIGs, SkipNotes, SkipVideos, SkipSlack
    mode,           \* "fetch" (FetchOnly), "analyze" (AnalyzeOnly), "store"
    llmKind,        \* "mock": every reply is "summary"; "varying": replies differ
    putMayFail,     \* whether a write to the analysis cache can fail
    mainPc,         \* position of the FetchOnly/AnalyzeOnly caller goroutine
    result,         \* what the phase returned: "none", "ok", "error"
    todo,           \* the slice the submit loop ranges over
    idx,            \* index of the next element of todo to submit
    recordings,     \* the recordings list fetched in step 3 of FetchOnly
    sem,            \* tokens held in the errgroup semaphore
    pc,             \* per group: position of its task
    ctxCancelled,   \* the caller's context has been cancelled
    gerr,           \* errgroup: first non-nil error returned by a task
    \* ---- locals of fetchSIG
    recIdx, attempted, failed,
    \* ---- locals of analyzeSIG and of the AnalyzeOnly closure
    sourcesUsed, sourcesMissing, summaries, synthesis, sr, taskErr, tmp,
    \* ---- AnalyzeOnly: the result slice and its mutex
    sigReports, mu, digest,
    \* ---- observation
    llmCalls,       \* LLM completion calls issued in the current run
    llmFailed,      \* some LLM call or cache write of the current run failed
    run,            \* 1 or 2: which AnalyzeOnly invocation
    window,         \* the run's date window <<start day, end day>>
    firstWindow,    \* the window of run 1
    firstClean,     \* run 1 wrote a cache entry for every stage it attempted
    startedAfterCancel, \* groups whose task was started after cancellation
    stageLog        \* per group: the analysis stages in the order they ran

storeVars == <<sigs, meeting_notes, video_transcripts, slack_messages,
               analysis_cache, clock>>
envVars   == <<llmKind, putMayFail>>
poolVars  == <<dbPath, nconns, connBusy, wop, putDone, missed>>
migVars   == <<applied, versions, migI, openRes, opens>>
slackVars == <<slackAPI, slackFlaky, tokens, sPc, sPage, allMessages, sIdx,
               sAcquired, sFetches, sUnlicensed, sAfterFirst, sWrote,
               sHistFailed>>
zoomVars  == <<fetch_log, poolTimeout, zPc, zRec, zCtxTimeout, zCalls, zLast>>
vttVars   == <<vttIn, textLines, lastSpeaker>>
relVars   == <<relInput, relLines, current, high, medium, low>>
nameVars  == <<sigName, normalized>>
lookVars  == <<lookback, parsed>>
moreVars  == <<zoomVars, vttVars, relVars, nameVars, lookVars>>
auxVars   == <<keys, poolVars, migVars, slackVars, moreVars>>
histVars  == <<lastOp, prevOp, preTables, nops, auxVars>>
ctlVars   == <<cfg, mode, llmKind, putMayFail, mainPc, result, todo, idx,
               recordings, sem, pc, ctxCancelled, gerr>>
fetchVars == <<recIdx, attempted, failed>>
anaVars   == <<sourcesUsed, sourcesMissing, summaries, synthesis, sr, taskErr,
               tmp, sigReports, mu, digest>>
obsVars   == <<llmCalls, llmFailed, run, window, firstWindow, firstClean,
               startedAfterCancel, stageLog>>
vars == <<storeVars, histVars, ctlVars, fetchVars, anaVars, obsVars>>

(***************************************************************************)
(* Bounds of the model.                                                    *)
(***************************************************************************)
MaxWorkers == 2     \* cfg.Workers ranges over 1..MaxWorkers
MaxOps     == 3     \* store operations in one behaviour of SpecStore
MaxClock   == 2     \* seconds that may pass in SpecStore
MaxDay     == 3     \* windows range over the days 0..MaxDay
MaxOpens   == 4     \* calls of store.New on one database file
MaxKeys    == 2     \* cache keys computed in one behaviour of SpecKey

None == "none"

\* browser.DefaultTimeout, in seconds.
DefaultTimeout == 60

\* An optional value (a Go pointer): Nil, or Some(v).
Nil == <<>>

Some(v) == <<v>>

(***************************************************************************)
(* Time values.  A time.Time is <<day, tod>>: a day number and 0 for       *)
(* midnight, 1 for a later time of that day.  A DATE column holds the text *)
(* of Format("2006-01-02"), a DATETIME column the text of the whole value; *)
(* SQLite compares both as text, so a date is a proper prefix of (and      *)
(* smaller than) every date-time of the same day.                          *)
(***************************************************************************)
DateText(t) == <<t[1]>>

DateTimeText(t) == <<t[1], t[2]>>

RECURSIVE TextLeq(_, _)
TextLeq(a, b) ==
    IF a = <<>> THEN TRUE
    ELSE IF b = <<>> THEN FALSE
    ELSE IF a[1] < b[1] THEN TRUE
    ELSE IF a[1] > b[1] THEN FALSE
    ELSE TextLeq(Tail(a), Tail(b))

(***************************************************************************)
(* The store's writes.  Each is INSERT ... ON CONFLICT(key) DO UPDATE SET  *)
(* of the listed columns only.                                             *)
(***************************************************************************)
UpsertSIGOp(tbl, sig, now) ==
    LET row == [id |-> sig.id, name |-> sig.name, category |-> sig.category,
                notes_doc_id |-> sig.notes_doc_id,
                slack_channel_id |-> sig.slack_channel_id, updated_at |-> now]
    IN  {r \in tbl : r.id # sig.id} \cup {row}

\* A plain INSERT, without the ON CONFLICT clause.
UpsertMeetingNoteInsertOnly(tbl, note, now) ==
    tbl \cup {[sig_id |-> note.sig_id, doc_id |-> note.doc_id,
              meeting_date |-> DateText(note.meeting_date),
              raw_text |-> note.raw_text,
              content_hash |-> note.content_hash, fetched_at |-> now]}

UpsertMeetingNoteOp(tbl, note, now) ==
    LET d == DateText(note.meeting_date)
        hit(r) == r.sig_id = note.sig_id /\ r.meeting_date = d
    IN  IF \E r \in tbl : hit(r)
        THEN {IF hit(r)
              THEN [r EXCEPT !.raw_text = note.raw_text,
                             !.content_hash = note.content_hash,
                             !.fetched_at = now]
              ELSE r : r \in tbl}
        ELSE tbl \cup {[sig_id |-> note.sig_id, doc_id |-> note.doc_id,
                        meeting_date |-> d, raw_text |-> note.raw_text,
                        content_hash |-> note.content_hash, fetched_at |-> now]}

UpsertVideoTranscriptOp(tbl, vt, now) ==
    LET hit(r) == r.zoom_url = vt.zoom_url
    IN  IF \E r \in tbl : hit(r)
        THEN {IF hit(r)
              THEN [r EXCEPT !.transcript = vt.transcript,
                             !.transcript_source = vt.transcript_source,
                             !.content_hash = vt.content_hash,
                             !.fetched_at = now]
              ELSE r : r \in tbl}
        ELSE tbl \cup {[sig_id |-> vt.sig_id, zoom_url |-> vt.zoom_url,
                        recording_date |-> DateTimeText(vt.recording_date),
                        duration_minutes |-> vt.duration_minutes,
                        transcript |-> vt.transcript,
                        transcript_source |-> vt.transcript_source,
                        content_hash |-> vt.content_hash, fetched_at |-> now]}

UpsertSlackMessageOp(tbl, msg, now) ==
    LET hit(r) == r.channel_id = msg.channel_id /\ r.message_ts = msg.message_ts
    IN  IF \E r \in tbl : hit(r)
        THEN {IF hit(r)
              THEN [r EXCEPT !.text = msg.text, !.user_name = msg.user_name,
                             !.fetched_at = now]
              ELSE r : r \in tbl}
        ELSE tbl \cup {[sig_id |-> msg.sig_id, channel_id |-> msg.channel_id,
                        message_ts |-> msg.message_ts, thread_ts |-> msg.thread_ts,
                        user_id |-> msg.user_id, user_name |-> msg.user_name,
                        text |-> msg.text,
                        message_date |-> DateTimeText(msg.message_date),
                        fetched_at |-> now]}

PutAnalysisCacheOp(tbl, ac, now) ==
    LET hit(r) == r.cache_key = ac.cache_key
    IN  IF \E r \in tbl : hit(r)
        THEN {IF hit(r)
              THEN [r EXCEPT !.result = ac.result, !.model = ac.model,
                             !.tokens_used = ac.tokens_used, !.created_at = now]
              ELSE r : r \in tbl}
        ELSE tbl \cup {[cache_key |-> ac.cache_key, sig_id |-> ac.sig_id,
                        source_type |-> ac.source_type,
                        date_range_start |-> DateText(ac.date_range_start),
                        date_range_end |-> DateText(ac.date_range_end),
                        prompt_hash |-> ac.prompt_hash, result |-> ac.result,
                        model |-> ac.model, tokens_used |-> ac.tokens_used,
                        created_at |-> now]}

(***************************************************************************)
(* The store's reads: the rows of one group whose date column lies, as     *)
(* text, between the two formatted window dates, newest first.             *)
(***************************************************************************)
RECURSIVE OrderDesc(_, _)
OrderDesc(rows, col) ==
    IF rows = {} THEN <<>>
    ELSE LET top == CHOOSE r \in rows :
                        \A q \in rows : TextLeq(q[col], r[col])
         IN  <<top>> \o OrderDesc(rows \ {top}, col)

InWindowText(txt, start, end) ==
    TextLeq(DateText(start), txt) /\ TextLeq(txt, DateText(end))

GetMeetingNotes(sigID, start, end) ==
    OrderDesc({r \in meeting_notes :
                  r.sig_id = sigID /\ InWindowText(r.meeting_date, start, end)},
              "meeting_date")

GetVideoTranscripts(sigID, start, end) ==
    OrderDesc({r \in video_transcripts :
                  r.sig_id = sigID /\ InWindowText(r.recording_date, start, end)},
              "recording_date")

GetSlackMessages(sigID, start, end) ==
    OrderDesc({r \in slack_messages :
                  r.sig_id = sigID /\ InWindowText(r.message_date, start, end)},
              "message_date")

\* sql.ErrNoRows is the result Nil.
\* A lookup that never finds the row.
GetAnalysisCacheNoRows(cacheKey) == Nil

GetAnalysisCache(cacheKey) ==
    IF \E r \in analysis_cache : r.cache_key = cacheKey
    THEN Some(CHOOSE r \in analysis_cache : r.cache_key = cacheKey)
    ELSE Nil

(***************************************************************************)
(* The analysis chain (internal/analysis).  A SHA-256 hex digest is        *)
(* modelled as the injective wrapping h(...) of its input.                 *)
(***************************************************************************)
hashContent(content) == "h(" \o content \o ")"

DayStr(d) == ToString(d)

\* A key that leaves the stage tag out.
buildCacheKeyNoStage(sigID, sourceType, start, end, contentHash) ==
    hashContent(sigID \o "|" \o DayStr(start[1]) \o "|" \o DayStr(end[1])
                \o "|" \o contentHash)

buildCacheKey(sigID, sourceType, start, end, contentHash) ==
    hashContent(sigID \o "|" \o sourceType \o "|" \o DayStr(start[1]) \o "|"
                \o DayStr(end[1]) \o "|" \o contentHash)

RECURSIVE Join(_, _)
Join(parts, sep) ==
    IF parts = <<>> THEN ""
    ELSE IF Len(parts) = 1 THEN parts[1]
    ELSE parts[1] \o sep \o Join(Tail(parts), sep)

NotesContent(notes) ==
    Join([k \in 1..Len(notes) |->
            "--- Meeting Date: " \o DayStr(notes[k].meeting_date[1]) \o " ---/"
            \o notes[k].raw_text], "//")

VideoContent(ts) ==
    Join([k \in 1..Len(ts) |->
            "--- Recording Date: " \o DayStr(ts[k].recording_date[1])
            \o " (Duration: " \o ToString(ts[k].duration_minutes) \o " min) ---/"
            \o ts[k].transcript], "//")

SlackContent(msgs) ==
    Join([k \in 1..Len(msgs) |->
            LET m == msgs[k]
                entry == "[" \o DayStr(m.message_date[1]) \o " "
                         \o ToString(m.message_date[2]) \o "] "
                         \o m.user_name \o ": " \o m.text
            IN  IF m.thread_ts # "" /\ m.thread_ts # m.message_ts
                THEN "  (thread reply) " \o entry ELSE entry], "/")

SynthesisContent(sums) ==
    Join([k \in 1..Len(sums) |->
            "=== Source: " \o sums[k].source_type \o " ===/" \o sums[k].summary],
         "//")

\* The stage input of each stage, as the code assembles it.
SummaryContent(src, rows) ==
    CASE src = "notes" -> NotesContent(rows)
      [] src = "video" -> VideoContent(rows)
      [] src = "slack" -> SlackContent(rows)

(***************************************************************************)
(* The memoized LLM stage shared by SummarizeMeetingNotes,                 *)
(* SummarizeVideoTranscripts, SummarizeSlackMessages, Synthesize and       *)
(* Score: look the key up; on a hit return the cached text; on a miss call *)
(* the LLM and, if it answers, write the entry (a write error is ignored). *)
(* An outcome is [ok, text, called, put]: put is the row written, or Nil.  *)
(***************************************************************************)
Replies(kind) == IF kind = "mock" THEN {"summary"} ELSE {"a", "b"}

\* The fixed template, then the user's additional context when there is one.
buildRelevanceSystemPrompt(customContext) ==
    "relevance-template"
    \o (IF customContext # ""
        THEN "## Additional Context from User:" \o customContext ELSE "")

\* The system prompt whose hash a stage stores with its cache entry.
SystemPrompt(sourceType) ==
    IF sourceType = "relevance"
    THEN buildRelevanceSystemPrompt(cfg.CustomContext)
    ELSE "prompt:" \o sourceType

CacheEntry(cacheKey, sigID, sourceType, start, end, text) ==
    [cache_key |-> cacheKey, sig_id |-> sigID, source_type |-> sourceType,
     date_range_start |-> start, date_range_end |-> end,
     prompt_hash |-> hashContent(SystemPrompt(sourceType)),
     result |-> text, model |-> "m", tokens_used |-> 1]

\* What a cache hit hands back to the caller.
CachedResult(cached) == cached[1].result

MemoOutcomes(sigID, sourceType, content, start, end, cancelled, kind, faulty) ==
    LET cacheKey == buildCacheKey(sigID, sourceType, start, end,
                                  hashContent(content))
        cached   == GetAnalysisCache(cacheKey)
    IN  IF cached # Nil
        THEN {[ok |-> TRUE, text |-> CachedResult(cached), called |-> FALSE,
               put |-> Nil]}
        ELSE {[ok |-> FALSE, text |-> "", called |-> TRUE, put |-> Nil]}
             \cup
             (IF cancelled THEN {}
              ELSE UNION {
                     {[ok |-> TRUE, text |-> t, called |-> TRUE, put |-> e] :
                        e \in (IF faulty THEN {Nil} ELSE {}) \cup
                              {Some(CacheEntry(cacheKey, sigID, sourceType,
                                               start, end, t))}} :
                     t \in Replies(kind)})

(***************************************************************************)
(* Fixtures: the catalog the registry serves, the recordings sheet, what   *)
(* each adapter stores on success, and the store a previous fetch left.    *)
(***************************************************************************)
NormalizeSIGID(name) ==
    CASE name = "G1" -> "g1"
      [] name = "G2" -> "g2"
      [] name = "G3" -> "g3"
      [] name = "L1" -> "l1"
      [] OTHER -> name

CatalogRow(name, category, doc, channel) ==
    [id |-> NormalizeSIGID(name), name |-> name, category |-> category,
     notes_doc_id |-> doc, slack_channel_id |-> channel]

Catalog ==
    << CatalogRow("G1", "specification", "d1", "C1"),
       CatalogRow("G2", "implementation", "d2", "C2"),
       CatalogRow("G3", "cross-cutting", "", ""),
       CatalogRow("L1", "localization", "d4", "") >>

Sheet ==
    << [sig_id |-> "g1", zoom_url |-> "u1", start_time |-> <<2, 1>>,
        duration_minutes |-> 30],
       [sig_id |-> "g1", zoom_url |-> "u2", start_time |-> <<1, 1>>,
        duration_minutes |-> 45] >>

Tasks == 1..Len(Catalog)

Note(sigID, doc, day, text) ==
    [sig_id |-> sigID, doc_id |-> doc, meeting_date |-> <<day, 0>>,
     raw_text |-> text, content_hash |-> hashContent(text)]

Transcript(sigID, url, t, minutes, text) ==
    [sig_id |-> sigID, zoom_url |-> url, recording_date |-> t,
     duration_minutes |-> minutes, transcript |-> text,
     transcript_source |-> "zoom_vtt", content_hash |-> hashContent(text)]

Message(sigID, channel, ts, thread, t, text) ==
    [sig_id |-> sigID, channel_id |-> channel, message_ts |-> ts,
     thread_ts |-> thread, user_id |-> "U1", user_name |-> "ann",
     text |-> text, message_date |-> t]

RECURSIVE UpsertAll(_, _, _, _)
UpsertAll(Op(_, _, _), tbl, recs, now) ==
    IF recs = <<>> THEN tbl
    ELSE UpsertAll(Op, Op(tbl, Head(recs), now), Tail(recs), now)

SeedSigs == UpsertAll(UpsertSIGOp, {}, Catalog, 0)

SeedNotes ==
    UpsertAll(UpsertMeetingNoteOp, {},
              << Note("g1", "d1", 2, "n1"), Note("g2", "d2", 1, "n2"),
                 Note("g2", "d2", 2, "n3"), Note("g3", "d3", 0, "old") >>, 0)

SeedTranscripts ==
    UpsertAll(UpsertVideoTranscriptOp, {},
              << Transcript("g1", "u1", <<2, 1>>, 30, "t1") >>, 0)

SeedMessages ==
    UpsertAll(UpsertSlackMessageOp, {},
              << Message("g1", "C1", "100.1", "", <<2, 1>>, "hi"),
                 Message("g2", "C2", "200.1", "", <<2, 1>>, "yo") >>, 0)

(***************************************************************************)
(* Helpers of the pipeline.                                                *)
(***************************************************************************)
SeqToSet(q) == {q[k] : k \in 1..Len(q)}

filterSIGs(list, filterIDs) ==
    IF Len(filterIDs) = 0
    THEN SelectSeq(list, LAMBDA g : g.category # "localization")
    ELSE LET idSet == {NormalizeSIGID(filterIDs[k]) : k \in 1..Len(filterIDs)}
         IN  SelectSeq(list, LAMBDA g : g.id \in idSet)

sigIDList(list) == [k \in 1..Len(list) |-> list[k].id]

RECURSIVE deduplicateSIGs(_)
deduplicateSIGs(list) ==
    IF list = <<>> THEN <<>>
    ELSE LET front == deduplicateSIGs(SubSeq(list, 1, Len(list) - 1))
             last  == list[Len(list)]
         IN  IF \E k \in 1..Len(front) : front[k].id = last.id
             THEN front ELSE Append(front, last)

filterRecordingsForSIG(recs, sigID) ==
    SelectSeq(recs, LAMBDA r : r.sig_id = sigID)

\* ORDER BY category, name over the fixture's categories.
CategoryRank(c) ==
    CASE c = "cross-cutting" -> 1
      [] c = "implementation" -> 2
      [] c = "localization" -> 3
      [] c = "specification" -> 4

RECURSIVE OrderByCategory(_)
OrderByCategory(rows) ==
    IF rows = {} THEN <<>>
    ELSE LET first == CHOOSE r \in rows :
                          \A q \in rows :
                              CategoryRank(r.category) <= CategoryRank(q.category)
         IN  <<first>> \o OrderByCategory(rows \ {first})

ListSIGs(filterIDs) ==
    IF Len(filterIDs) > 0
    THEN OrderByCategory({r \in sigs : r.id \in SeqToSet(filterIDs)})
    ELSE OrderByCategory(sigs)

\* GoogleSheetsFetcher.FetchRecordings: the sheet's rows inside the window
\* whose group is one of sigIDs (every row when sigIDs is empty).
FetchRecordings(start, end, sigIDs) ==
    SelectSeq(Sheet, LAMBDA r :
        /\ start[1] <= r.start_time[1] /\ r.start_time[1] <= end[1]
        /\ (Len(sigIDs) = 0 \/ r.sig_id \in SeqToSet(sigIDs)))

WindowStart == <<window[1], 1>>
WindowEnd   == <<window[2], 1>>

\* The context the tasks run under: errgroup.WithContext cancels it when the
\* parent is cancelled or a task has returned an error.
GctxCancelled == ctxCancelled \/ gerr # None

Running(i) == pc[i] \notin {"idle", "done"}

(***************************************************************************)
(* The errgroup worker pool (g.SetLimit, g.Go, g.Wait).                    *)
(***************************************************************************)
\* g.Go blocks until the semaphore, of capacity cfg.Workers, has room.
SemHasRoomUnlimited == TRUE

SemHasRoom == sem < cfg.Workers

\* g.Wait blocks until every started goroutine has called done.
WaitReadyAtOnce == TRUE

WaitReady == \A i \in Tasks : ~Running(i)

FirstPc == IF mode = "fetch" THEN "f_notes" ELSE "a_notes"

Go ==
    /\ mainPc = "submit"
    /\ idx <= Len(todo)
    /\ SemHasRoom
    /\ sem' = sem + 1
    /\ pc' = [pc EXCEPT ![idx] = FirstPc]
    /\ idx' = idx + 1
    /\ startedAfterCancel' =
           IF ctxCancelled THEN startedAfterCancel \cup {idx}
           ELSE startedAfterCancel
    /\ UNCHANGED <<storeVars, histVars, cfg, mode, envVars, mainPc, result,
                   todo, recordings, ctxCancelled, gerr, fetchVars, anaVars,
                   llmCalls, llmFailed, run, window, firstWindow, firstClean,
                   stageLog>>

LoopEnd ==
    /\ mainPc = "submit"
    /\ idx > Len(todo)
    /\ mainPc' = "wait"
    /\ UNCHANGED <<storeVars, histVars, cfg, mode, envVars, result, todo, idx,
                   recordings, sem, pc, ctxCancelled, gerr, fetchVars, anaVars,
                   obsVars>>

\* The phase's answer to a g.Wait that returned no error.
AfterWaitOk == IF mode = "fetch" THEN "returned" ELSE "emit"

Wait ==
    /\ mainPc = "wait"
    /\ WaitReady
    /\ IF gerr # None
       THEN mainPc' = "returned" /\ result' = "error"
       ELSE /\ mainPc' = AfterWaitOk
            /\ result' = IF mode = "fetch" THEN "ok" ELSE result
    /\ UNCHANGED <<storeVars, histVars, cfg, mode, envVars, todo, idx,
                   recordings, sem, pc, ctxCancelled, gerr, fetchVars, anaVars,
                   obsVars>>

\* The caller's context is cancelled while the phase runs.
Cancel ==
    /\ mainPc \in {"start", "submit", "wait"}
    /\ ~ctxCancelled
    /\ ctxCancelled' = TRUE
    /\ UNCHANGED <<storeVars, histVars, cfg, mode, envVars, mainPc, result,
                   todo, idx, recordings, sem, pc, gerr, fetchVars, anaVars,
                   obsVars>>

(***************************************************************************)
(* FetchOnly and fetchSIG.                                                 *)
(***************************************************************************)
\* An adapter call does I/O under the task context: it may fail, and it
\* fails when that context is already cancelled.
AdapterOutcomes == IF GctxCancelled THEN {FALSE} ELSE BOOLEAN

\* fetchSIG logs an adapter's error as a warning and goes on to the next step.
OnAdapterErrorReturn(nextPc) == "f_ret"

OnAdapterError(nextPc) == nextPc

\* Steps 1 to 3 of FetchOnly: registry, upsert, filter, recordings list.
FetchPrepare ==
    /\ mode = "fetch"
    /\ mainPc = "start"
    /\ \E regOk \in BOOLEAN, sheetOk \in BOOLEAN :
          IF ~regOk
          THEN /\ mainPc' = "returned"
               /\ result' = "error"
               /\ UNCHANGED <<sigs, todo, recordings>>
          ELSE /\ sigs' = UpsertAll(UpsertSIGOp, sigs, Catalog, clock)
               /\ todo' = filterSIGs(Catalog, cfg.SIGs)
               /\ recordings' =
                     IF ~cfg.SkipVideos /\ sheetOk /\ ~ctxCancelled
                     THEN FetchRecordings(WindowStart, WindowEnd,
                                          sigIDList(filterSIGs(Catalog, cfg.SIGs)))
                     ELSE <<>>
               /\ mainPc' = "submit"
               /\ UNCHANGED result
    /\ UNCHANGED <<meeting_notes, video_transcripts, slack_messages,
                   analysis_cache, clock, histVars, cfg, mode, envVars, idx, sem,
                   pc, ctxCancelled, gerr, fetchVars, anaVars, obsVars>>

FetchNotes(i) ==
    /\ pc[i] = "f_notes"
    /\ LET sig == todo[i] IN
       IF ~cfg.SkipNotes /\ sig.notes_doc_id # ""
       THEN \E ok \in AdapterOutcomes :
               /\ attempted' = [attempted EXCEPT ![i] = @ \cup {"notes"}]
               /\ failed' = [failed EXCEPT ![i] = IF ok THEN @ ELSE @ \cup {"notes"}]
               /\ meeting_notes' =
                     IF ok
                     THEN UpsertMeetingNoteOp(meeting_notes,
                              Note(sig.id, sig.notes_doc_id, 2, "n-" \o sig.id),
                              clock)
                     ELSE meeting_notes
               /\ pc' = [pc EXCEPT ![i] = IF ok THEN "f_video"
                                          ELSE OnAdapterError("f_video")]
       ELSE /\ pc' = [pc EXCEPT ![i] = "f_video"]
            /\ UNCHANGED <<attempted, failed, meeting_notes>>
    /\ UNCHANGED <<sigs, video_transcripts, slack_messages, analysis_cache,
                   clock, histVars, cfg, mode, envVars, mainPc, result, todo,
                   idx, recordings, sem, ctxCancelled, gerr, recIdx, anaVars,
                   obsVars>>

\* One iteration of the loop over the group's recordings, or its exit.
FetchVideo(i) ==
    /\ pc[i] = "f_video"
    /\ LET sig  == todo[i]
           recs == filterRecordingsForSIG(recordings, sig.id)
       IN  IF ~cfg.SkipVideos /\ recIdx[i] <= Len(recs)
           THEN \E ok \in AdapterOutcomes :
                   LET rec == recs[recIdx[i]] IN
                   /\ attempted' = [attempted EXCEPT ![i] = @ \cup {rec.zoom_url}]
                   /\ failed' = [failed EXCEPT
                                    ![i] = IF ok THEN @ ELSE @ \cup {rec.zoom_url}]
                   /\ video_transcripts' =
                         IF ok
                         THEN UpsertVideoTranscriptOp(video_transcripts,
                                  Transcript(rec.sig_id, rec.zoom_url,
                                             rec.start_time, rec.duration_minutes,
                                             "t-" \o rec.zoom_url), clock)
                         ELSE video_transcripts
                   /\ recIdx' = [recIdx EXCEPT ![i] = @ + 1]
                   /\ pc' = [pc EXCEPT ![i] = IF ok THEN "f_video"
                                              ELSE OnAdapterError("f_video")]
           ELSE /\ pc' = [pc EXCEPT ![i] = "f_slack"]
                /\ UNCHANGED <<attempted, failed, video_transcripts, recIdx>>
    /\ UNCHANGED <<sigs, meeting_notes, slack_messages, analysis_cache, clock,
                   histVars, cfg, mode, envVars, mainPc, result, todo, idx,
                   recordings, sem, ctxCancelled, gerr, anaVars, obsVars>>

FetchSlack(i) ==
    /\ pc[i] = "f_slack"
    /\ LET sig == todo[i] IN
       IF ~cfg.SkipSlack /\ cfg.SlackCreds /\ sig.slack_channel_id # ""
       THEN \E ok \in AdapterOutcomes :
               /\ attempted' = [attempted EXCEPT ![i] = @ \cup {"slack"}]
               /\ failed' = [failed EXCEPT ![i] = IF ok THEN @ ELSE @ \cup {"slack"}]
               /\ slack_messages' =
                     IF ok
                     THEN UpsertSlackMessageOp(slack_messages,
                              Message(sig.id, sig.slack_channel_id, "100.1", "",
                                      <<2, 1>>, "hi"), clock)
                     ELSE slack_messages
       ELSE UNCHANGED <<attempted, failed, slack_messages>>
    /\ pc' = [pc EXCEPT ![i] = "f_ret"]
    /\ UNCHANGED <<sigs, meeting_notes, video_transcripts, analysis_cache, clock,
                   histVars, cfg, mode, envVars, mainPc, result, todo, idx,
                   recordings, sem, ctxCancelled, gerr, recIdx, anaVars, obsVars>>

\* fetchSIG returns nil; the goroutine's deferred done releases its token.
FetchReturn(i) ==
    /\ pc[i] = "f_ret"
    /\ pc' = [pc EXCEPT ![i] = "done"]
    /\ sem' = sem - 1
    /\ UNCHANGED <<storeVars, histVars, cfg, mode, envVars, mainPc, result,
                   todo, idx, recordings, ctxCancelled, gerr, fetchVars, anaVars,
                   obsVars>>

(***************************************************************************)
(* AnalyzeOnly and analyzeSIG.                                             *)
(***************************************************************************)
Sources == <<"notes", "video", "slack">>

SourceRows(src, sigID) ==
    CASE src = "notes" -> GetMeetingNotes(sigID, WindowStart, WindowEnd)
      [] src = "video" -> GetVideoTranscripts(sigID, WindowStart, WindowEnd)
      [] src = "slack" -> GetSlackMessages(sigID, WindowStart, WindowEnd)

\* analyzeSIG runs its blocks in program order.
AfterSummarySkipsSlack(src) ==
    CASE src = "notes" -> "a_video"
      [] src = "video" -> "a_synth"
      [] src = "slack" -> "a_synth"

AfterSummary(src) ==
    CASE src = "notes" -> "a_video"
      [] src = "video" -> "a_slack"
      [] src = "slack" -> "a_synth"

SIGReport(sig, used, missing, relevance) ==
    [sig_id |-> sig.id, sources_used |-> used, sources_missing |-> missing,
     relevance |-> relevance]

\* The report the AnalyzeOnly closure builds when analyzeSIG returned an error.
PartialReport(sig) == SIGReport(sig, <<>>, Sources, Nil)

\* Effects of a memoized stage on the cache and on the counters.
StageEffects(o) ==
    /\ analysis_cache' = IF o.put # Nil
                         THEN PutAnalysisCacheOp(analysis_cache, o.put[1], clock)
                         ELSE analysis_cache
    /\ llmCalls' = IF o.called THEN llmCalls + 1 ELSE llmCalls
    /\ llmFailed' = (llmFailed \/ (o.called /\ o.put = Nil))

AnalyzePrepare ==
    /\ mode = "analyze"
    /\ mainPc = "start"
    /\ LET listed == ListSIGs(cfg.SIGs) IN
       IF Len(listed) = 0
       THEN /\ mainPc' = "returned"
            /\ result' = "error"
            /\ UNCHANGED todo
       ELSE /\ todo' = filterSIGs(deduplicateSIGs(listed), cfg.SIGs)
            /\ mainPc' = "submit"
            /\ UNCHANGED result
    /\ UNCHANGED <<storeVars, histVars, cfg, mode, envVars, idx, recordings, sem,
                   pc, ctxCancelled, gerr, fetchVars, anaVars, obsVars>>

\* A summary is asked of the LLM whatever the store returned.
HasInputAlways(rows) == TRUE

\* analyzeSIG summarizes a source only when the store returned records.
HasInput(rows) == Len(rows) > 0

Summarize(i, src) ==
    /\ pc[i] = "a_" \o src
    /\ LET sig  == todo[i]
           rows == SourceRows(src, sig.id)
       IN  IF HasInput(rows)
           THEN \E o \in MemoOutcomes(sig.id, src, SummaryContent(src, rows),
                                      WindowStart, WindowEnd, GctxCancelled,
                                      llmKind, putMayFail) :
                   /\ StageEffects(o)
                   /\ IF o.ok
                      THEN /\ summaries' =
                                [summaries EXCEPT
                                    ![i] = Append(@, [source_type |-> src,
                                                      summary |-> o.text])]
                           /\ sourcesUsed' = [sourcesUsed EXCEPT ![i] = Append(@, src)]
                           /\ UNCHANGED sourcesMissing
                      ELSE /\ sourcesMissing' =
                                [sourcesMissing EXCEPT ![i] = Append(@, src)]
                           /\ UNCHANGED <<summaries, sourcesUsed>>
           ELSE /\ sourcesMissing' = [sourcesMissing EXCEPT ![i] = Append(@, src)]
                /\ UNCHANGED <<summaries, sourcesUsed, analysis_cache, llmCalls,
                               llmFailed>>
    /\ stageLog' = [stageLog EXCEPT ![i] = Append(@, src)]
    /\ pc' = [pc EXCEPT ![i] = AfterSummary(src)]
    /\ UNCHANGED <<sigs, meeting_notes, video_transcripts, slack_messages, clock,
                   histVars, cfg, mode, envVars, mainPc, result, todo, idx,
                   recordings, sem, ctxCancelled, gerr, fetchVars, synthesis, sr,
                   taskErr, tmp, sigReports, mu, digest, run, window,
                   firstWindow, firstClean, startedAfterCancel>>

\* Lines 818-844: build the report; return it when there is no summary;
\* else synthesize.
Synthesize(i) ==
    /\ pc[i] = "a_synth"
    /\ LET sig  == todo[i]
           base == SIGReport(sig, sourcesUsed[i], sourcesMissing[i], Nil)
       IN  IF Len(summaries[i]) = 0
           THEN /\ sr' = [sr EXCEPT ![i] = base]
                /\ pc' = [pc EXCEPT ![i] = "a_lock"]
                /\ UNCHANGED <<synthesis, taskErr, stageLog, analysis_cache,
                               llmCalls, llmFailed>>
           ELSE \E o \in MemoOutcomes(sig.id, "synthesis",
                                      SynthesisContent(summaries[i]),
                                      WindowStart, WindowEnd, GctxCancelled,
                                      llmKind, putMayFail) :
                   /\ StageEffects(o)
                   /\ stageLog' = [stageLog EXCEPT ![i] = Append(@, "synth")]
                   /\ IF o.ok
                      THEN /\ synthesis' = [synthesis EXCEPT ![i] = o.text]
                           /\ sr' = [sr EXCEPT ![i] = base]
                           /\ pc' = [pc EXCEPT ![i] = "a_score"]
                           /\ UNCHANGED taskErr
                      ELSE /\ sr' = [sr EXCEPT ![i] = PartialReport(sig)]
                           /\ taskErr' = [taskErr EXCEPT ![i] = TRUE]
                           /\ pc' = [pc EXCEPT ![i] = "a_lock"]
                           /\ UNCHANGED synthesis
    /\ UNCHANGED <<sigs, meeting_notes, video_transcripts, slack_messages, clock,
                   histVars, cfg, mode, envVars, mainPc, result, todo, idx,
                   recordings, sem, ctxCancelled, gerr, fetchVars, sourcesUsed,
                   sourcesMissing, summaries, tmp, sigReports, mu, digest, run,
                   window, firstWindow, firstClean, startedAfterCancel>>

\* Lines 846-854: score the synthesis and attach the relevance report.
Score(i) ==
    /\ pc[i] = "a_score"
    /\ LET sig == todo[i] IN
       \E o \in MemoOutcomes(sig.id, "relevance", synthesis[i], WindowStart,
                             WindowEnd, GctxCancelled, llmKind, putMayFail) :
          /\ StageEffects(o)
          /\ stageLog' = [stageLog EXCEPT ![i] = Append(@, "score")]
          /\ IF o.ok
             THEN /\ sr' = [sr EXCEPT
                              ![i] = [@ EXCEPT !.relevance =
                                        Some([report |-> o.text,
                                              tokens_used |-> 1])]]
                  /\ UNCHANGED taskErr
             ELSE /\ sr' = [sr EXCEPT ![i] = PartialReport(sig)]
                  /\ taskErr' = [taskErr EXCEPT ![i] = TRUE]
    /\ pc' = [pc EXCEPT ![i] = "a_lock"]
    /\ UNCHANGED <<sigs, meeting_notes, video_transcripts, slack_messages, clock,
                   histVars, cfg, mode, envVars, mainPc, result, todo, idx,
                   recordings, sem, ctxCancelled, gerr, fetchVars, sourcesUsed,
                   sourcesMissing, summaries, synthesis, tmp, sigReports, mu,
                   digest, run, window, firstWindow, firstClean,
                   startedAfterCancel>>

\* mu.Lock() blocks while another task holds the mutex (0: nobody).
MutexFreeUnguarded == TRUE

MutexFree == mu = 0

\* mu.Lock(), then append reads the slice ...
Lock(i) ==
    /\ pc[i] = "a_lock"
    /\ MutexFree
    /\ mu' = i
    /\ tmp' = [tmp EXCEPT ![i] = sigReports]
    /\ pc' = [pc EXCEPT ![i] = "a_write"]
    /\ UNCHANGED <<storeVars, histVars, cfg, mode, envVars, mainPc, result,
                   todo, idx, recordings, sem, ctxCancelled, gerr, fetchVars,
                   sourcesUsed, sourcesMissing, summaries, synthesis, sr,
                   taskErr, sigReports, digest, obsVars>>

\* What the AnalyzeOnly closure returns to the errgroup: always nil.
ClosureResultPropagates(i) == IF taskErr[i] THEN "error" ELSE None

ClosureResult(i) == None

\* ... and stores the extended slice; then mu.Unlock(), return, done().
AppendUnlock(i) ==
    /\ pc[i] = "a_write"
    /\ sigReports' = Append(tmp[i], sr[i])
    /\ mu' = 0
    /\ gerr' = IF gerr = None THEN ClosureResult(i) ELSE gerr
    /\ pc' = [pc EXCEPT ![i] = "done"]
    /\ sem' = sem - 1
    /\ UNCHANGED <<storeVars, histVars, cfg, mode, envVars, mainPc, result,
                   todo, idx, recordings, ctxCancelled, fetchVars, sourcesUsed,
                   sourcesMissing, summaries, synthesis, sr, taskErr, tmp,
                   digest, obsVars>>

\* Lines 675-721: run statistics, the digest, the emitter (whose failure is
\* logged), and the return.
Emit ==
    /\ mainPc = "emit"
    /\ \E written \in BOOLEAN :
          LET withData == Cardinality({k \in 1..Len(sigReports) :
                                          sigReports[k].relevance # Nil})
          IN  digest' = Some([sig_reports |-> sigReports,
                              sigs_processed |-> Len(sigReports),
                              sigs_with_data |-> withData,
                              total_llm_calls |-> withData * 5,
                              written |-> written])
    /\ result' = "ok"
    /\ mainPc' = "returned"
    /\ UNCHANGED <<storeVars, histVars, cfg, mode, envVars, todo, idx,
                   recordings, sem, pc, ctxCancelled, gerr, fetchVars,
                   sourcesUsed, sourcesMissing, summaries, synthesis, sr,
                   taskErr, tmp, sigReports, mu, obsVars>>

(***************************************************************************)
(* Initial states.                                                         *)
(***************************************************************************)
IdleTasks(v) == [i \in Tasks |-> v]

InitBaseAt(at) ==
    /\ mainPc = at /\ result = "none" /\ todo = <<>> /\ idx = 1
    /\ recordings = <<>> /\ sem = 0 /\ pc = IdleTasks("idle")
    /\ ctxCancelled = FALSE /\ gerr = None
    /\ recIdx = IdleTasks(1) /\ attempted = IdleTasks({}) /\ failed = IdleTasks({})
    /\ sourcesUsed = IdleTasks(<<>>) /\ sourcesMissing = IdleTasks(<<>>)
    /\ summaries = IdleTasks(<<>>) /\ synthesis = IdleTasks(None)
    /\ sr = IdleTasks(Nil) /\ taskErr = IdleTasks(FALSE) /\ tmp = IdleTasks(<<>>)
    /\ sigReports = <<>> /\ mu = 0 /\ digest = Nil
    /\ llmCalls = 0 /\ llmFailed = FALSE /\ run = 1
    /\ window = <<1, 3>> /\ firstWindow = <<1, 3>> /\ firstClean = FALSE
    /\ startedAfterCancel = {} /\ stageLog = IdleTasks(<<>>)
    /\ lastOp = Nil /\ prevOp = Nil /\ preTables = Nil /\ nops = 0
    /\ clock = 0
    /\ keys = <<>>
    /\ dbPath = "file" /\ nconns = 1 /\ connBusy = {}
    /\ wop = [w \in 1..MaxWorkers |-> Nil] /\ putDone = {} /\ missed = {}
    /\ applied = {} /\ versions = {} /\ migI = 0 /\ openRes = "ok"
    /\ opens = 0

\* No chat task exists outside SpecSlack.
NoSlack ==
    /\ slackAPI = <<>> /\ slackFlaky = FALSE /\ tokens = 1
    /\ sPc = <<>> /\ sPage = <<>> /\ allMessages = <<>> /\ sIdx = <<>>
    /\ sAcquired = <<>> /\ sFetches = <<>> /\ sUnlicensed = 0
    /\ sAfterFirst = <<>> /\ sWrote = <<>> /\ sHistFailed = <<>>

\* The transcript adapter and the parsers are at rest outside their
\* specifications.
NoMore ==
    /\ fetch_log = <<>> /\ poolTimeout = DefaultTimeout /\ zPc = <<>> /\ zRec = <<>>
    /\ zCtxTimeout = <<>> /\ zCalls = 0 /\ zLast = <<>>
    /\ vttIn = <<>> /\ textLines = <<>> /\ lastSpeaker = <<>>
    /\ relInput = <<>> /\ relLines = <<>> /\ current = "none"
    /\ high = <<>> /\ medium = <<>> /\ low = <<>>
    /\ sigName = <<>> /\ normalized = <<>>
    /\ lookback = <<>> /\ parsed = <<>>

InitLocalsAt(at) == InitBaseAt(at) /\ NoSlack /\ NoMore

InitLocals == InitLocalsAt("start")

EmptyStore ==
    /\ sigs = {} /\ meeting_notes = {} /\ video_transcripts = {}
    /\ slack_messages = {} /\ analysis_cache = {}

SeededStore ==
    /\ sigs = SeedSigs /\ meeting_notes = SeedNotes
    /\ video_transcripts = SeedTranscripts /\ slack_messages = SeedMessages
    /\ analysis_cache = {}

Filters == { <<>>, <<"G1", "g2">> }

Config(workers, filter, skipNotes, skipVideos, skipSlack, creds) ==
    [Workers |-> workers, SIGs |-> filter, SkipNotes |-> skipNotes,
     SkipVideos |-> skipVideos, SkipSlack |-> skipSlack, SlackCreds |-> creds,
     Command |-> "none", Offline |-> FALSE, Format |-> "markdown",
     Provider |-> "anthropic", HasKey |-> TRUE, CustomContext |-> ""]

FetchConfigs ==
    {Config(w, f, n, v, s, TRUE) :
        w \in 1..MaxWorkers, f \in Filters, n \in BOOLEAN, v \in BOOLEAN,
        s \in BOOLEAN}
    \cup {Config(w, <<>>, FALSE, FALSE, FALSE, FALSE) : w \in 1..MaxWorkers}

AnalyzeConfigs ==
    {Config(w, f, FALSE, FALSE, FALSE, TRUE) : w \in 1..MaxWorkers, f \in Filters}

Init ==
    /\ InitLocals
    /\ llmKind = "mock" /\ putMayFail = FALSE
    /\ \/ mode = "fetch" /\ cfg \in FetchConfigs /\ EmptyStore
       \/ mode = "analyze" /\ cfg \in AnalyzeConfigs /\ SeededStore

FetchNext ==
    \/ FetchPrepare
    \/ \E i \in Tasks : FetchNotes(i) \/ FetchVideo(i) \/ FetchSlack(i)
                        \/ FetchReturn(i)

AnalyzeNext ==
    \/ AnalyzePrepare
    \/ \E i \in Tasks : \/ \E k \in 1..Len(Sources) : Summarize(i, Sources[k])
                        \/ Synthesize(i) \/ Score(i)
                        \/ Lock(i) \/ AppendUnlock(i)
    \/ Emit

PoolNext == Go \/ LoopEnd \/ Wait

Next == PoolNext \/ Cancel \/ FetchNext \/ AnalyzeNext

Spec == Init /\ [][Next]_vars

(***************************************************************************)
(* SpecMemo: AnalyzeOnly invoked a second time on the same pipeline, on    *)
(* the same day or a day later (the window is [now - lookback, now]).      *)
(***************************************************************************)
StartSecondRun ==
    /\ mode = "analyze"
    /\ mainPc = "returned"
    /\ run = 1
    /\ run' = 2
    /\ firstClean' = (result = "ok" /\ ~llmFailed)
    /\ \E later \in 0..1 : window' = <<window[1] + later, window[2] + later>>
    /\ mainPc' = "start" /\ result' = "none" /\ todo' = <<>> /\ idx' = 1
    /\ pc' = IdleTasks("idle")
    /\ sourcesUsed' = IdleTasks(<<>>) /\ sourcesMissing' = IdleTasks(<<>>)
    /\ summaries' = IdleTasks(<<>>) /\ synthesis' = IdleTasks(None)
    /\ sr' = IdleTasks(Nil) /\ taskErr' = IdleTasks(FALSE)
    /\ tmp' = IdleTasks(<<>>) /\ sigReports' = <<>> /\ digest' = Nil
    /\ llmCalls' = 0 /\ llmFailed' = FALSE /\ stageLog' = IdleTasks(<<>>)
    /\ UNCHANGED <<storeVars, histVars, cfg, mode, envVars, recordings, sem,
                   ctxCancelled, gerr, fetchVars, mu, firstWindow,
                   startedAfterCancel>>

InitMemo ==
    /\ InitLocals
    /\ \/ llmKind = "varying" /\ putMayFail = FALSE
       \/ llmKind = "mock" /\ putMayFail = TRUE
    /\ mode = "analyze"
    /\ cfg = Config(1, <<"g1">>, FALSE, FALSE, FALSE, TRUE)
    /\ SeededStore

NextMemo == PoolNext \/ AnalyzeNext \/ StartSecondRun

SpecMemo == InitMemo /\ [][NextMemo]_vars

(***************************************************************************)
(* SpecStore: up to MaxOps upserts on an empty store, while time passes.   *)
(* preTables is the store as it was before the last upsert, with the time  *)
(* of that upsert; lastOp and prevOp are the last two upserts.             *)
(***************************************************************************)
Tables ==
    [sigs |-> sigs, meeting_notes |-> meeting_notes,
     video_transcripts |-> video_transcripts,
     slack_messages |-> slack_messages, analysis_cache |-> analysis_cache]

SigInputs ==
    {[id |-> "g1", name |-> "G1", category |-> c, notes_doc_id |-> "d1",
      slack_channel_id |-> "C1"] : c \in {"specification", "implementation"}}

NoteInputs == {Note("g1", "d1", 1, "a"), Note("g1", "d2", 1, "b"),
               Note("g1", "d1", 2, "a")}

TranscriptInputs ==
    {Transcript("g1", "u1", <<1, 1>>, 30, "a"),
     Transcript("g2", "u1", <<2, 1>>, 45, "b")}

MessageInputs ==
    {Message("g1", "C1", "100.1", "", <<1, 1>>, "a"),
     Message("g2", "C1", "100.1", "100.0", <<1, 1>>, "b")}

CacheInputs ==
    {CacheEntry("k1", "g1", "notes", <<1, 1>>, <<3, 1>>, "a"),
     CacheEntry("k1", "g2", "video", <<1, 1>>, <<3, 1>>, "b")}

Record(kind, rec) ==
    /\ mode = "store"
    /\ nops < MaxOps
    /\ nops' = nops + 1
    /\ preTables' = Some([tables |-> Tables, at |-> clock])
    /\ prevOp' = lastOp
    /\ lastOp' = Some([kind |-> kind, rec |-> rec])
    /\ UNCHANGED <<clock, auxVars, ctlVars, fetchVars, anaVars, obsVars>>

UpsertSIG ==
    \E sig \in SigInputs :
        /\ Record("sig", sig)
        /\ sigs' = UpsertSIGOp(sigs, sig, clock)
        /\ UNCHANGED <<meeting_notes, video_transcripts, slack_messages,
                       analysis_cache>>

UpsertMeetingNote ==
    \E note \in NoteInputs :
        /\ Record("note", note)
        /\ meeting_notes' = UpsertMeetingNoteOp(meeting_notes, note, clock)
        /\ UNCHANGED <<sigs, video_transcripts, slack_messages, analysis_cache>>

UpsertVideoTranscript ==
    \E vt \in TranscriptInputs :
        /\ Record("video", vt)
        /\ video_transcripts' = UpsertVideoTranscriptOp(video_transcripts, vt, clock)
        /\ UNCHANGED <<sigs, meeting_notes, slack_messages, analysis_cache>>

UpsertSlackMessage ==
    \E msg \in MessageInputs :
        /\ Record("slack", msg)
        /\ slack_messages' = UpsertSlackMessageOp(slack_messages, msg, clock)
        /\ UNCHANGED <<sigs, meeting_notes, video_transcripts, analysis_cache>>

PutAnalysisCache ==
    \E ac \in CacheInputs :
        /\ Record("cache", ac)
        /\ analysis_cache' = PutAnalysisCacheOp(analysis_cache, ac, clock)
        /\ UNCHANGED <<sigs, meeting_notes, video_transcripts, slack_messages>>

Tick ==
    /\ mode = "store"
    /\ clock < MaxClock
    /\ clock' = clock + 1
    /\ UNCHANGED <<sigs, meeting_notes, video_transcripts, slack_messages,
                   analysis_cache, histVars, ctlVars, fetchVars, anaVars, obsVars>>

InitStore ==
    /\ InitLocals
    /\ llmKind = "mock" /\ putMayFail = FALSE
    /\ mode = "store"
    /\ cfg = Config(1, <<>>, FALSE, FALSE, FALSE, TRUE)
    /\ EmptyStore

NextStore ==
    \/ UpsertSIG \/ UpsertMeetingNote \/ UpsertVideoTranscript
    \/ UpsertSlackMessage \/ PutAnalysisCache \/ Tick

SpecStore == InitStore /\ [][NextStore]_vars

(***************************************************************************)
(* SpecCmd: the report and fetch commands around the pipeline: flags to    *)
(* configuration, validation, pipeline.New, the phases, the exit code.     *)
(***************************************************************************)
DefaultWorkers == 4

\* The --workers value is taken as it is.
WorkersFromFlagRaw(v) == v

\* initConfig: a --workers value is taken only when it is positive.
WorkersFromFlag(v) == IF v > 0 THEN v ELSE DefaultWorkers

Validate(c) ==
    /\ c.Workers >= 1
    /\ c.Format \in {"markdown", "json"}
    /\ c.Provider \in {"anthropic", "openai"}
    /\ (c.Offline \/ c.HasKey)

\* The process exit code a command derives from the pipeline's error.
ExitFor(runErr) ==
    CASE runErr = "ok"      -> "exit0"
      [] runErr = "partial" -> "exit1"
      [] OTHER              -> "exit2"

\* RunE up to the first phase: report validates, both create the pipeline
\* (the store may fail to open, the provider may be unsupported).
CmdStart ==
    /\ mainPc = "cmd"
    /\ IF cfg.Command = "report" /\ ~Validate(cfg)
       THEN mainPc' = "exited" /\ result' = "exit3" /\ UNCHANGED mode
       ELSE \E opened \in BOOLEAN :
               IF ~opened \/ cfg.Provider \notin {"anthropic", "openai"}
               THEN mainPc' = "exited" /\ result' = "exit2" /\ UNCHANGED mode
               ELSE /\ mainPc' = "start"
                    /\ mode' = IF cfg.Command = "report" /\ cfg.Offline
                               THEN "analyze" ELSE "fetch"
                    /\ UNCHANGED result
    /\ UNCHANGED <<storeVars, histVars, cfg, envVars, todo, idx, recordings,
                   sem, pc, ctxCancelled, gerr, fetchVars, anaVars, obsVars>>

\* Pipeline.Run: AnalyzeOnly follows a FetchOnly that returned nil.
RunAnalyze ==
    /\ cfg.Command = "report" /\ ~cfg.Offline
    /\ mode = "fetch" /\ mainPc = "returned" /\ result = "ok"
    /\ mode' = "analyze" /\ mainPc' = "start" /\ result' = "none"
    /\ todo' = <<>> /\ idx' = 1 /\ pc' = IdleTasks("idle")
    /\ UNCHANGED <<storeVars, histVars, cfg, envVars, recordings, sem,
                   ctxCancelled, gerr, fetchVars, anaVars, obsVars>>

\* The command maps the error of its last phase to the exit code.
CmdExit ==
    /\ cfg.Command \in {"report", "fetch"}
    /\ mainPc = "returned"
    /\ ~ENABLED RunAnalyze
    /\ mainPc' = "exited"
    /\ result' = ExitFor(result)
    /\ UNCHANGED <<storeVars, histVars, cfg, mode, envVars, todo, idx,
                   recordings, sem, pc, ctxCancelled, gerr, fetchVars, anaVars,
                   obsVars>>

CmdConfig(command, offline, format, provider, hasKey, flag, filter) ==
    [Config(WorkersFromFlag(flag), filter, FALSE, FALSE, FALSE, TRUE)
        EXCEPT !.Command = command, !.Offline = offline, !.Format = format,
               !.Provider = provider, !.HasKey = hasKey]

\* Valid configurations, and one configuration per rule of Validate that
\* the flags can break.
CmdConfigs ==
    {CmdConfig(c, o, "markdown", "anthropic", TRUE, 1, f) :
        c \in {"report", "fetch"}, o \in BOOLEAN,
        f \in {<<"g1">>, <<"g1", "g2">>}}
    \cup {CmdConfig(c, FALSE, "json", "openai", TRUE, w, <<"g2">>) :
             c \in {"report", "fetch"}, w \in {0, 2}}
    \cup {CmdConfig(c, FALSE, x[1], x[2], x[3], 1, <<"g1">>) :
             c \in {"report", "fetch"},
             x \in {<<"xml", "anthropic", TRUE>>, <<"markdown", "bogus", TRUE>>,
                    <<"markdown", "anthropic", FALSE>>}}

InitCmd ==
    /\ InitLocalsAt("cmd")
    /\ llmKind = "mock" /\ putMayFail = FALSE
    /\ mode = "cmd"
    /\ cfg \in CmdConfigs
    /\ IF cfg.Offline THEN SeededStore ELSE EmptyStore

NextCmd == CmdStart \/ RunAnalyze \/ CmdExit \/ PoolNext \/ FetchNext
              \/ AnalyzeNext

SpecCmd == InitCmd /\ [][NextCmd]_vars

\* The Go scheduler runs every goroutine that can step: the submit loop and
\* g.Wait (PoolNext) and the tasks' adapter calls, each of which returns
\* (FetchNext).
FetchFairness == WF_vars(PoolNext) /\ WF_vars(FetchNext)

SpecCmdLive == InitCmd /\ [][NextCmd]_vars /\ FetchFairness

(***************************************************************************)
(* SpecCount: AnalyzeOnly, twice, over the records of group g2 (two        *)
(* meeting records, one chat message, no transcript) with the counting LLM *)
(* that answers "summary".                                                 *)
(***************************************************************************)
InitCount ==
    /\ InitLocals
    /\ llmKind = "mock" /\ putMayFail = FALSE
    /\ mode = "analyze"
    /\ cfg \in {Config(w, <<"g2">>, FALSE, FALSE, FALSE, TRUE) :
                   w \in 1..MaxWorkers}
    /\ SeededStore

NextCount == PoolNext \/ AnalyzeNext \/ StartSecondRun

SpecCount == InitCount /\ [][NextCount]_vars

(***************************************************************************)
(* SpecKey: buildCacheKey applied to the inputs the analysis stages hand   *)
(* it: a group id, a stage tag, the window's two instants, the content.    *)
(***************************************************************************)
KeyInputs ==
    [sig_id : {NormalizeSIGID("G1"), NormalizeSIGID("G2")},
     stage : {"notes", "synthesis"},
     start : {<<1, 0>>, <<1, 1>>, <<2, 0>>},
     end : {<<2, 1>>, <<3, 0>>, <<3, 1>>},
     content : {"a", "b"}]

BuildKey ==
    /\ mode = "key"
    /\ Len(keys) < MaxKeys
    /\ \E t \in KeyInputs :
          keys' = Append(keys,
                         [tuple |-> t,
                          key |-> buildCacheKey(t.sig_id, t.stage, t.start,
                                                t.end, hashContent(t.content))])
    /\ UNCHANGED <<storeVars, lastOp, prevOp, preTables, nops, poolVars,
                   migVars, slackVars, moreVars, ctlVars, fetchVars, anaVars,
                   obsVars>>

InitKey ==
    /\ InitLocals
    /\ llmKind = "mock" /\ putMayFail = FALSE
    /\ mode = "key"
    /\ cfg = Config(1, <<>>, FALSE, FALSE, FALSE, TRUE)
    /\ EmptyStore

NextKey == BuildKey

SpecKey == InitKey /\ [][NextKey]_vars

(***************************************************************************)
(* SpecContext: the program run a second time over the same store after    *)
(* the user's additional-context file may have been edited.                *)
(***************************************************************************)
Contexts == {"", "watch-sampling"}

\* A new process: pipeline.New loads the context file again.
StartRunWithContext ==
    /\ mode = "analyze"
    /\ mainPc = "returned"
    /\ run = 1
    /\ run' = 2
    /\ firstClean' = (result = "ok" /\ ~llmFailed)
    /\ \E c \in Contexts : cfg' = [cfg EXCEPT !.CustomContext = c]
    /\ mainPc' = "start" /\ result' = "none" /\ todo' = <<>> /\ idx' = 1
    /\ pc' = IdleTasks("idle")
    /\ sourcesUsed' = IdleTasks(<<>>) /\ sourcesMissing' = IdleTasks(<<>>)
    /\ summaries' = IdleTasks(<<>>) /\ synthesis' = IdleTasks(None)
    /\ sr' = IdleTasks(Nil) /\ taskErr' = IdleTasks(FALSE)
    /\ tmp' = IdleTasks(<<>>) /\ sigReports' = <<>> /\ digest' = Nil
    /\ llmCalls' = 0 /\ llmFailed' = FALSE /\ stageLog' = IdleTasks(<<>>)
    /\ UNCHANGED <<storeVars, histVars, mode, envVars, recordings, sem,
                   ctxCancelled, gerr, fetchVars, mu, window, firstWindow,
                   startedAfterCancel>>

InitContext ==
    /\ InitLocals
    /\ llmKind = "mock" /\ putMayFail = FALSE
    /\ mode = "analyze"
    /\ \E c \in Contexts :
          cfg = [Config(1, <<"g2">>, FALSE, FALSE, FALSE, TRUE)
                    EXCEPT !.CustomContext = c]
    /\ SeededStore

NextContext == PoolNext \/ AnalyzeNext \/ StartRunWithContext

SpecContext == InitContext /\ [][NextContext]_vars

(***************************************************************************)
(* SpecPool: workers calling PutAnalysisCache and GetAnalysisCache on one  *)
(* Store.  store.New opens the handle with sql.Open and sets no connection *)
(* limit: a statement runs on an idle connection of the pool, or on a new  *)
(* one when all are busy.  Connections to a file share the database; each  *)
(* connection to ":memory:" has a database of its own, and only the first, *)
(* on which migrate ran, has the tables.                                   *)
(***************************************************************************)
PoolWorkers == 1..MaxWorkers

\* The connections the pool may hand to a statement.
ConnChoices ==
    IF (1..nconns) \ connBusy # {} THEN (1..nconns) \ connBusy
    ELSE {nconns + 1}

\* Whether connection c sees the tables migrate created.
HasSchema(c) == dbPath = "file" \/ c = 1

\* A worker enters PutAnalysisCache or GetAnalysisCache: the statement gets
\* its connection.
PoolStart(w) ==
    /\ mode = "pool" /\ mainPc = "opened"
    /\ wop[w] = Nil
    /\ \E op \in {"put", "get"}, ac \in CacheInputs, c \in ConnChoices :
          /\ wop' = [wop EXCEPT ![w] = Some([op |-> op, ac |-> ac, conn |-> c,
                                             after |-> ac.cache_key \in putDone])]
          /\ connBusy' = connBusy \cup {c}
          /\ nconns' = IF c > nconns THEN c ELSE nconns
    /\ UNCHANGED <<storeVars, lastOp, prevOp, preTables, nops, keys, migVars, slackVars,
                   moreVars, dbPath,
                   putDone, missed, ctlVars, fetchVars, anaVars, obsVars>>

\* The statement runs on its connection and the call returns.
PoolFinish(w) ==
    /\ mode = "pool" /\ mainPc = "opened"
    /\ wop[w] # Nil
    /\ LET o == wop[w][1] IN
       /\ IF o.op = "put"
          THEN /\ analysis_cache' =
                     IF HasSchema(o.conn)
                     THEN PutAnalysisCacheOp(analysis_cache, o.ac, clock)
                     ELSE analysis_cache
               /\ putDone' = IF HasSchema(o.conn)
                             THEN putDone \cup {o.ac.cache_key} ELSE putDone
               /\ UNCHANGED missed
          ELSE /\ missed' =
                     IF o.after /\ (~HasSchema(o.conn)
                                    \/ GetAnalysisCache(o.ac.cache_key) = Nil)
                     THEN missed \cup {o.ac.cache_key} ELSE missed
               /\ UNCHANGED <<analysis_cache, putDone>>
       /\ connBusy' = connBusy \ {o.conn}
    /\ wop' = [wop EXCEPT ![w] = Nil]
    /\ UNCHANGED <<sigs, meeting_notes, video_transcripts, slack_messages,
                   clock, lastOp, prevOp, preTables, nops, keys, migVars, slackVars,
                   moreVars, dbPath,
                   nconns, ctlVars, fetchVars, anaVars, obsVars>>

InitPool ==
    /\ InitLocalsAt("pool")
    /\ llmKind = "mock" /\ putMayFail = FALSE
    /\ mode = "pool"
    /\ cfg = Config(MaxWorkers, <<>>, FALSE, FALSE, FALSE, TRUE)
    /\ EmptyStore

\* store.New(dbPath): a file path or the in-memory sentinel.
OpenStore ==
    /\ mode = "pool" /\ mainPc = "pool"
    /\ mainPc' = "opened"
    /\ dbPath' \in {"file", ":memory:"}
    /\ UNCHANGED <<storeVars, lastOp, prevOp, preTables, nops, keys, migVars, slackVars,
                   moreVars, nconns,
                   connBusy, wop, putDone, missed, cfg, mode, envVars, result,
                   todo, idx, recordings, sem, pc, ctxCancelled, gerr,
                   fetchVars, anaVars, obsVars>>

NextPool ==
    \/ OpenStore
    \/ \E w \in PoolWorkers : PoolStart(w)
    \/ \E w \in PoolWorkers : PoolFinish(w)

SpecPool == InitPool /\ [][NextPool]_vars

(***************************************************************************)
(* SpecMigrate: store.New on one database file, opened up to MaxOpens      *)
(* times.  migrate reads the highest recorded version and, for each later  *)
(* entry of migrations, executes the entry and then inserts its number     *)
(* into schema_version: two Exec calls, each of which may return an error. *)
(***************************************************************************)
NumMigrations == 8

SetMax(S) == IF S = {} THEN 0 ELSE CHOOSE x \in S : \A y \in S : y <= x

\* New is called: schema_version is created if absent and its highest
\* version read; either statement may fail.
MigrateBegin ==
    /\ mode = "migrate"
    /\ openRes # "none" /\ opens < MaxOpens
    /\ opens' = opens + 1
    /\ \E ok \in BOOLEAN :
          IF ok THEN openRes' = "none" /\ migI' = SetMax(versions)
          ELSE openRes' = "err" /\ UNCHANGED migI
    /\ UNCHANGED <<storeVars, lastOp, prevOp, preTables, nops, keys, poolVars, slackVars,
                   moreVars,
                   applied, versions, ctlVars, fetchVars, anaVars, obsVars>>

\* One iteration of the loop, or its exit.
MigrateStep ==
    /\ mode = "migrate"
    /\ openRes = "none"
    /\ IF migI < NumMigrations
       THEN \E out \in {"ok", "migration fails", "insert fails"} :
               /\ applied' = IF out = "migration fails" THEN applied
                             ELSE applied \cup {migI + 1}
               /\ versions' = IF out = "ok" THEN versions \cup {migI + 1}
                              ELSE versions
               /\ migI' = IF out = "ok" THEN migI + 1 ELSE migI
               /\ openRes' = IF out = "ok" THEN "none" ELSE "err"
       ELSE /\ openRes' = "ok"
            /\ UNCHANGED <<applied, versions, migI>>
    /\ UNCHANGED <<storeVars, lastOp, prevOp, preTables, nops, keys, poolVars, slackVars,
                   moreVars,
                   opens, ctlVars, fetchVars, anaVars, obsVars>>

InitMigrate ==
    /\ InitLocalsAt("migrate")
    /\ llmKind = "mock" /\ putMayFail = FALSE
    /\ mode = "migrate"
    /\ cfg = Config(1, <<>>, FALSE, FALSE, FALSE, TRUE)
    /\ EmptyStore

NextMigrate == MigrateBegin \/ MigrateStep

SpecMigrate == InitMigrate /\ [][NextMigrate]_vars

(***************************************************************************)
(* SpecSlack: the chat adapter (internal/sources/slack.go).  The pipeline  *)
(* holds one SlackFetcher, so the chat tasks of the groups share its rate  *)
(* limiter.  Each task calls FetchMessages up to MaxFetches times against  *)
(* an API that serves the same pages every time.                           *)
(***************************************************************************)
MaxFetches == 2

\* A message as the API returns it.
APIMessage(ts, threadTS, replyCount, text) ==
    [ts |-> ts, thread_ts |-> threadTS, reply_count |-> replyCount,
     text |-> text]

\* parseSlackTS: the seconds before the dot give the instant; a timestamp
\* with nothing before the dot is an error.
parseSlackTS(ts) ==
    CASE ts = "100.1" -> Some(<<1, 1>>)
      [] ts = "200.1" -> Some(<<2, 1>>)
      [] ts = "200.2" -> Some(<<2, 1>>)
      [] ts = "300.1" -> Some(<<3, 1>>)
      [] OTHER -> Nil

\* The groups whose channels are fetched, and the tasks fetching them.
SlackSigs == <<Catalog[1], Catalog[2]>>

SlackTasks == 1..Len(SlackSigs)

\* Two history pages for C1 with three top-level messages, the second of
\* which has one reply; its replies page holds the parent and the reply.
\* next gives, per history page, the page its cursor leads to (0: the
\* response has no cursor).
\* parentTS is the thread_ts the API puts on the parent: empty, or (as the
\* Slack API does for a message that started a thread) its own ts.
Scenario(parentTS) ==
    [history |->
        [c \in {"C1", "C2"} |->
            IF c = "C1"
            THEN << <<APIMessage("100.1", "", 0, "one"),
                      APIMessage("200.1", parentTS, 1, "two")>>,
                    <<APIMessage("300.1", "", 0, "three")>> >>
            ELSE << <<APIMessage("100.1", "", 0, "other")>> >>],
     replies |->
        [c \in {"C1", "C2"} |->
            IF c = "C1"
            THEN <<APIMessage("200.1", parentTS, 1, "two"),
                   APIMessage("200.2", "200.1", 0, "re: two")>>
            ELSE <<>>],
     next |-> [c \in {"C1", "C2"} |-> IF c = "C1" THEN <<2, 0>> ELSE <<0>>],
     shared |-> FALSE,
     store_errors |-> FALSE]

\* A server that answers every history request for C2 with no message,
\* has_more = true and the same cursor.
LoopingServer ==
    [Scenario("") EXCEPT !.history["C2"] = << <<>> >>, !.next["C2"] = <<1>>]

\* The catalog gives the second group the channel of the first.
SharedChannel == [Scenario("") EXCEPT !.shared = TRUE]

\* UpsertSlackMessage can return an error; C1's history is one page of two
\* messages without replies.
FailingStore ==
    [Scenario("") EXCEPT
        !.store_errors = TRUE,
        !.history["C1"] = << <<APIMessage("100.1", "", 0, "one"),
                               APIMessage("300.1", "", 0, "three")>> >>,
        !.next["C1"] = <<0>>]

SlackScenarios ==
    {Scenario(""), Scenario("200.1"), LoopingServer, SharedChannel,
     FailingStore}

\* The group task t fetches for.
SigOf(t) ==
    IF slackAPI.shared
    THEN [SlackSigs[t] EXCEPT !.slack_channel_id = "C1"]
    ELSE SlackSigs[t]

\* logSlackFetch: one more row of fetch_log.
logSlackFetch(log, sigID, channelID, status) ==
    Append(log, [source_type |-> "slack", sig_id |-> sigID,
                 url |-> channelID, status |-> status])

\* storeMessage: the row upserted for an API message, when its timestamp
\* parses.
storeMessage(tbl, sig, channelID, msg, now) ==
    IF parseSlackTS(msg.ts) = Nil THEN tbl
    ELSE UpsertSlackMessageOp(tbl,
             Message(sig.id, channelID, msg.ts, msg.thread_ts,
                     parseSlackTS(msg.ts)[1], msg.text), now)

\* The loop of fetchAndStoreThread over the replies page.
RECURSIVE StoreReplies(_, _, _, _, _, _)
StoreReplies(tbl, sig, channelID, threadTS, msgs, now) ==
    IF msgs = <<>> THEN tbl
    ELSE LET msg == Head(msgs) IN
         IF msg.ts = threadTS /\ msg.thread_ts = ""
         THEN StoreReplies(tbl, sig, channelID, threadTS, Tail(msgs), now)
         ELSE StoreReplies(
                  storeMessage(tbl, sig, channelID,
                               [msg EXCEPT !.thread_ts = threadTS], now),
                  sig, channelID, threadTS, Tail(msgs), now)

\* Whether that loop upserts at least one row.
RepliesStored(threadTS, msgs) ==
    \E k \in 1..Len(msgs) :
        /\ ~(msgs[k].ts = threadTS /\ msgs[k].thread_ts = "")
        /\ parseSlackTS(msgs[k].ts) # Nil

Outcomes == IF slackFlaky THEN BOOLEAN ELSE {TRUE}

StoreOutcomes == IF slackAPI.store_errors THEN BOOLEAN ELSE {TRUE}

slackFrame == <<sigs, meeting_notes, video_transcripts, analysis_cache, clock,
                lastOp, prevOp, preTables, nops, keys, poolVars, migVars,
                poolTimeout, zPc, zRec, zCtxTimeout, zCalls, zLast, vttVars,
                relVars, nameVars, lookVars,
                slackAPI, slackFlaky, ctlVars, fetchVars, anaVars, obsVars>>

\* FetchMessages returns (with or without an error), after logging the
\* status when there is one to log.
SlackReturn(t, tbl, status) ==
    /\ fetch_log' = IF status = "none" THEN fetch_log
                    ELSE logSlackFetch(fetch_log, SigOf(t).id,
                                       SigOf(t).slack_channel_id, status)
    /\ sPc' = [sPc EXCEPT ![t] = "idle"]
    /\ sFetches' = [sFetches EXCEPT ![t] = @ + 1]
    /\ sAfterFirst' = IF sFetches[t] = 0
                      THEN [sAfterFirst EXCEPT ![t] = Some(tbl)]
                      ELSE sAfterFirst

\* Lines 73-88: the call starts.
SlackBegin(t) ==
    /\ mode = "slack" /\ sPc[t] = "idle" /\ sFetches[t] < MaxFetches
    /\ sPc' = [sPc EXCEPT ![t] = "wait_history"]
    /\ sPage' = [sPage EXCEPT ![t] = 1]
    /\ allMessages' = [allMessages EXCEPT ![t] = <<>>]
    /\ sWrote' = [sWrote EXCEPT ![t] = FALSE]
    /\ sHistFailed' = [sHistFailed EXCEPT ![t] = FALSE]
    /\ UNCHANGED <<slackFrame, slack_messages, fetch_log, tokens, sIdx,
                   sAcquired, sFetches, sUnlicensed, sAfterFirst>>

\* The request is prepared without a wait on the limiter.
LimiterSkip(t, before, after) ==
    /\ mode = "slack" /\ sPc[t] = before
    /\ sPc' = [sPc EXCEPT ![t] = after]
    /\ UNCHANGED <<slackFrame, slack_messages, fetch_log, tokens, sPage,
                   allMessages, sIdx, sAcquired, sFetches, sUnlicensed,
                   sAfterFirst, sWrote, sHistFailed>>

\* rateLimiter.Wait: takes the token when there is one; may give up with an
\* error.  before is the position waited at, after the one a token leads to.
LimiterWait(t, before, after) ==
    /\ mode = "slack" /\ sPc[t] = before
    /\ \E ok \in Outcomes :
          IF ok
          THEN /\ tokens > 0
               /\ tokens' = tokens - 1
               /\ sAcquired' = [sAcquired EXCEPT ![t] = TRUE]
               /\ sPc' = [sPc EXCEPT ![t] = after]
               /\ UNCHANGED <<sIdx, sFetches, sAfterFirst, slack_messages,
                              fetch_log>>
          ELSE /\ UNCHANGED <<tokens, sAcquired, slack_messages>>
               /\ IF before = "wait_history"
                  THEN SlackReturn(t, slack_messages, "none") /\ UNCHANGED sIdx
                  ELSE /\ sIdx' = [sIdx EXCEPT ![t] = @ + 1]
                       /\ sPc' = [sPc EXCEPT ![t] = "store"]
                       /\ UNCHANGED <<sFetches, sAfterFirst, fetch_log>>
    /\ UNCHANGED <<slackFrame, sPage, allMessages, sUnlicensed, sWrote,
                   sHistFailed>>

\* Line 92.
WaitHistory(t) == LimiterWait(t, "wait_history", "history")

\* Line 178.
WaitThread(t) == LimiterWait(t, "wait_thread", "thread")

\* A request leaves: it spends the task's acquisition.
SendRequest(t) ==
    /\ sUnlicensed' = IF sAcquired[t] THEN sUnlicensed ELSE sUnlicensed + 1
    /\ sAcquired' = [sAcquired EXCEPT ![t] = FALSE]

\* The first page is taken for the whole history.
HasMoreNever(cursors, k) == FALSE

\* fetchHistoryPage hands back the cursor of a response that says has_more;
\* the loop goes on while the cursor is not empty.
HasMore(cursors, k) == cursors[k] # 0

\* The history request failed, and the messages collected so far are
\* stored all the same.
HistoryFailedStores(t) ==
    /\ sHistFailed' = [sHistFailed EXCEPT ![t] = TRUE]
    /\ sPc' = [sPc EXCEPT ![t] = "store"]
    /\ sIdx' = [sIdx EXCEPT ![t] = 1]
    /\ UNCHANGED <<allMessages, sPage, sFetches, sAfterFirst, fetch_log>>

\* Lines 97-100: the history request failed; the error is logged and the
\* call returns.
HistoryFailed(t) ==
    /\ sHistFailed' = [sHistFailed EXCEPT ![t] = TRUE]
    /\ SlackReturn(t, slack_messages, "error")
    /\ UNCHANGED <<allMessages, sPage, sIdx>>

\* Lines 96-109: one conversations.history request.
HistoryPage(t) ==
    /\ mode = "slack" /\ sPc[t] = "history"
    /\ SendRequest(t)
    /\ LET pages   == slackAPI.history[SigOf(t).slack_channel_id]
           cursors == slackAPI.next[SigOf(t).slack_channel_id]
       IN
       \E ok \in Outcomes :
          IF ok
          THEN /\ allMessages' = [allMessages EXCEPT ![t] = @ \o pages[sPage[t]]]
               /\ IF HasMore(cursors, sPage[t])
                  THEN /\ sPage' = [sPage EXCEPT ![t] = cursors[sPage[t]]]
                       /\ sPc' = [sPc EXCEPT ![t] = "wait_history"]
                       /\ UNCHANGED sIdx
                  ELSE /\ sPc' = [sPc EXCEPT ![t] = "store"]
                       /\ sIdx' = [sIdx EXCEPT ![t] = 1]
                       /\ UNCHANGED sPage
               /\ UNCHANGED <<sFetches, sAfterFirst, fetch_log, sHistFailed>>
          ELSE HistoryFailed(t)
    /\ UNCHANGED <<slackFrame, slack_messages, tokens, sWrote>>

\* Lines 124-144: one iteration of the store loop, or the return after it.
StoreNext(t) ==
    /\ mode = "slack" /\ sPc[t] = "store"
    /\ LET sig == SigOf(t) IN
       IF sIdx[t] > Len(allMessages[t])
       THEN /\ UNCHANGED <<slack_messages, sIdx, sWrote>>
            /\ SlackReturn(t, slack_messages, "success")
       ELSE LET msg == allMessages[t][sIdx[t]] IN
            \E ok \in StoreOutcomes :
               LET stored == ok /\ parseSlackTS(msg.ts) # Nil IN
               /\ slack_messages' =
                     IF stored
                     THEN storeMessage(slack_messages, sig,
                                       sig.slack_channel_id, msg, clock)
                     ELSE slack_messages
               /\ sWrote' = [sWrote EXCEPT ![t] = @ \/ stored]
               /\ IF stored /\ msg.reply_count > 0 /\ msg.thread_ts = ""
                  THEN sPc' = [sPc EXCEPT ![t] = "wait_thread"] /\ UNCHANGED sIdx
                  ELSE sIdx' = [sIdx EXCEPT ![t] = @ + 1] /\ UNCHANGED sPc
               /\ UNCHANGED <<sFetches, sAfterFirst, fetch_log>>
    /\ UNCHANGED <<slackFrame, tokens, sPage, allMessages, sAcquired,
                   sUnlicensed, sHistFailed>>

\* Lines 182-212: the conversations.replies request and the replies' upserts.
ThreadReplies(t) ==
    /\ mode = "slack" /\ sPc[t] = "thread"
    /\ SendRequest(t)
    /\ LET sig == SigOf(t)
           msg == allMessages[t][sIdx[t]]
       IN  \E ok \in Outcomes :
              /\ slack_messages' =
                    IF ok
                    THEN StoreReplies(slack_messages, sig, sig.slack_channel_id,
                                      msg.ts,
                                      slackAPI.replies[sig.slack_channel_id],
                                      clock)
                    ELSE slack_messages
              /\ sWrote' = [sWrote EXCEPT ![t] =
                               @ \/ (ok /\ RepliesStored(msg.ts,
                                          slackAPI.replies[sig.slack_channel_id]))]
    /\ sIdx' = [sIdx EXCEPT ![t] = @ + 1]
    /\ sPc' = [sPc EXCEPT ![t] = "store"]
    /\ UNCHANGED <<slackFrame, fetch_log, tokens, sPage, allMessages, sFetches,
                   sAfterFirst, sHistFailed>>

\* 1200 ms pass: the bucket holds a token again.
Refill ==
    /\ mode = "slack" /\ tokens = 0
    /\ tokens' = 1
    /\ UNCHANGED <<slackFrame, slack_messages, fetch_log, sPc, sPage,
                   allMessages, sIdx, sAcquired, sFetches, sUnlicensed,
                   sAfterFirst, sWrote, sHistFailed>>

InitSlack ==
    /\ InitBaseAt("slack") /\ NoMore
    /\ mode = "slack"
    /\ cfg = Config(MaxWorkers, <<>>, FALSE, FALSE, FALSE, TRUE)
    /\ llmKind = "mock" /\ putMayFail = FALSE
    /\ sigs = SeedSigs /\ meeting_notes = {} /\ video_transcripts = {}
    /\ slack_messages = {} /\ analysis_cache = {}
    /\ slackAPI \in SlackScenarios
    /\ slackFlaky \in (IF slackAPI = Scenario("") THEN BOOLEAN ELSE {FALSE})
    /\ tokens = 1
    /\ sPc = [t \in SlackTasks |-> "idle"]
    /\ sPage = [t \in SlackTasks |-> 1]
    /\ allMessages = [t \in SlackTasks |-> <<>>]
    /\ sIdx = [t \in SlackTasks |-> 1]
    /\ sAcquired = [t \in SlackTasks |-> FALSE]
    /\ sFetches = [t \in SlackTasks |-> 0]
    /\ sUnlicensed = 0
    /\ sAfterFirst = [t \in SlackTasks |-> Nil]
    /\ sWrote = [t \in SlackTasks |-> FALSE]
    /\ sHistFailed = [t \in SlackTasks |-> FALSE]

NextSlack ==
    \/ \E t \in SlackTasks : SlackBegin(t)
    \/ \E t \in SlackTasks : WaitHistory(t)
    \/ \E t \in SlackTasks : HistoryPage(t)
    \/ \E t \in SlackTasks : StoreNext(t)
    \/ \E t \in SlackTasks : WaitThread(t)
    \/ \E t \in SlackTasks : ThreadReplies(t)
    \/ Refill

SpecSlack == InitSlack /\ [][NextSlack]_vars

\* The scheduler runs every task that can step; the limiter serves its
\* waiters in turn, so a task that can take a token again and again gets
\* one.
SlackFairness ==
    /\ \A t \in SlackTasks :
          /\ SF_vars(WaitHistory(t)) /\ WF_vars(HistoryPage(t))
          /\ WF_vars(StoreNext(t))
          /\ SF_vars(WaitThread(t)) /\ WF_vars(ThreadReplies(t))
    /\ WF_vars(Refill)

SpecSlackLive == InitSlack /\ [][NextSlack]_vars /\ SlackFairness

(***************************************************************************)
(* SpecZoom: the transcript adapter (ZoomFetcher.FetchTranscript).  The    *)
(* pipeline holds one ZoomFetcher with one browser.Pool; the tasks of the  *)
(* groups call FetchTranscript concurrently, MaxZoomCalls times in all.    *)
(***************************************************************************)
MaxZoomCalls == 3

minRecordingDuration == 2

ExtendedTimeout == 90

ZoomTasks == 1..2

Recording(sigID, url, minutes) ==
    [sig_id |-> sigID, zoom_url |-> url, start_time |-> <<2, 1>>,
     duration_minutes |-> minutes]

RecordingInputs ==
    {Recording("g1", "u1", 30), Recording("g1", "u2", 1),
     Recording("g2", "u3", 0), Recording("g2", "u4", minRecordingDuration),
     Recording("g2", "", 30)}

\* The recording is long enough to be fetched, or its duration is unknown.
LongEnough(rec) ==
    ~(rec.duration_minutes > 0 /\ rec.duration_minutes < minRecordingDuration)

\* ZoomFetcher.logFetch: one more row of fetch_log.
logFetch(log, rec, status) ==
    Append(log, [source_type |-> "video_transcript", sig_id |-> rec.sig_id,
                 url |-> rec.zoom_url, status |-> status])

CallDone(t, rec, err, wrote, logged) ==
    /\ zLast' = [zLast EXCEPT ![t] = Some([rec |-> rec, err |-> err,
                                           wrote |-> wrote, logged |-> logged])]
    /\ zPc' = [zPc EXCEPT ![t] = "idle"]

zoomFrame == <<sigs, meeting_notes, slack_messages, analysis_cache, clock,
               lastOp, prevOp, preTables, nops, keys, poolVars, migVars,
               slackVars, vttVars, relVars, nameVars, lookVars, ctlVars, fetchVars,
               anaVars, obsVars>>

\* Lines 60-72: the checks before the browser is used.
ZoomBegin(t) ==
    /\ mode = "zoom" /\ zPc[t] = "idle" /\ zCalls < MaxZoomCalls
    /\ zCalls' = zCalls + 1
    /\ \E rec \in RecordingInputs :
          /\ zRec' = [zRec EXCEPT ![t] = rec]
          /\ IF rec.zoom_url = ""
             THEN CallDone(t, rec, TRUE, FALSE, None)
             ELSE IF ~LongEnough(rec)
             THEN CallDone(t, rec, FALSE, FALSE, None)
             ELSE zPc' = [zPc EXCEPT ![t] = "set_timeout"] /\ UNCHANGED zLast
    /\ UNCHANGED <<zoomFrame, video_transcripts, fetch_log, poolTimeout,
                   zCtxTimeout>>

\* Line 75: f.pool.SetTimeout(90 * time.Second) writes the pool's field.
ZoomSetTimeout(t) ==
    /\ mode = "zoom" /\ zPc[t] = "set_timeout"
    /\ poolTimeout' = ExtendedTimeout
    /\ zPc' = [zPc EXCEPT ![t] = "new_context"]
    /\ UNCHANGED <<zoomFrame, video_transcripts, fetch_log, zRec, zCtxTimeout,
                   zCalls, zLast>>

\* Line 76: f.pool.NewContext(ctx) reads it.
ZoomNewContext(t) ==
    /\ mode = "zoom" /\ zPc[t] = "new_context"
    /\ zCtxTimeout' = [zCtxTimeout EXCEPT ![t] = poolTimeout]
    /\ zPc' = [zPc EXCEPT ![t] = "extract"]
    /\ UNCHANGED <<zoomFrame, video_transcripts, fetch_log, poolTimeout, zRec,
                   zCalls, zLast>>

\* Lines 80-145: the page, the VTT download, the parse and the upsert, each
\* of which may end the call.
ZoomFinish(t) ==
    /\ mode = "zoom" /\ zPc[t] = "extract"
    /\ LET rec == zRec[t] IN
       \E out \in {"extract error", "no transcript", "download error",
                   "empty transcript", "store error", "stored"} :
          LET status == CASE out \in {"extract error", "download error",
                                      "store error"} -> "error"
                          [] out \in {"no transcript", "empty transcript"}
                                -> "skipped"
                          [] OTHER -> "success"
          IN  /\ fetch_log' = logFetch(fetch_log, rec, status)
              /\ video_transcripts' =
                    IF out = "stored"
                    THEN UpsertVideoTranscriptOp(
                             video_transcripts,
                             Transcript(rec.sig_id, rec.zoom_url, rec.start_time,
                                        rec.duration_minutes, "t1"), clock)
                    ELSE video_transcripts
              /\ CallDone(t, rec, status = "error", out = "stored", status)
    /\ UNCHANGED <<zoomFrame, poolTimeout, zRec, zCtxTimeout, zCalls>>

InitZoom ==
    /\ InitBaseAt("zoom") /\ NoSlack
    /\ mode = "zoom"
    /\ cfg = Config(MaxWorkers, <<>>, FALSE, FALSE, FALSE, TRUE)
    /\ llmKind = "mock" /\ putMayFail = FALSE
    /\ sigs = SeedSigs /\ meeting_notes = {} /\ video_transcripts = {}
    /\ slack_messages = {} /\ analysis_cache = {}
    /\ fetch_log = <<>> /\ poolTimeout = DefaultTimeout
    /\ zPc = [t \in ZoomTasks |-> "idle"]
    /\ zRec = [t \in ZoomTasks |-> Nil]
    /\ zCtxTimeout = [t \in ZoomTasks |-> 0]
    /\ zCalls = 0
    /\ zLast = [t \in ZoomTasks |-> Nil]
    /\ vttIn = <<>> /\ textLines = <<>> /\ lastSpeaker = <<>>
    /\ relInput = <<>> /\ relLines = <<>> /\ current = "none"
    /\ high = <<>> /\ medium = <<>> /\ low = <<>>
    /\ sigName = <<>> /\ normalized = <<>>
    /\ lookback = <<>> /\ parsed = <<>>

NextZoom ==
    \/ \E t \in ZoomTasks : ZoomBegin(t)
    \/ \E t \in ZoomTasks : ZoomSetTimeout(t)
    \/ \E t \in ZoomTasks : ZoomNewContext(t)
    \/ \E t \in ZoomTasks : ZoomFinish(t)

SpecZoom == InitZoom /\ [][NextZoom]_vars

(***************************************************************************)
(* SpecVTT: parseVTT, one line of the content per step.  A line is a       *)
(* sequence of characters.  "L" stands for a run of 50 letters, "T" for a  *)
(* timestamp line "hh:mm:ss.mmm --> hh:mm:ss.mmm", "W" for the WEBVTT      *)
(* header and "N" for the word NOTE.                                       *)
(***************************************************************************)
MaxCues == 3

LineInputs ==
    { <<"A", ":", " ", "x">>, <<"A", ":", " ", "x", "y">>,
      <<"A", ":", " ", "y">>, <<"B", ":", " ", "x">>,
      <<"B", ":", " ", "x", "y">>, <<"x">>, <<"x", "y">>,
      <<":", " ", "x">>, <<":", " ", "x", "y">>,
      <<"L", ":", " ", "x">>, <<"L", ":", " ", "x", "y">>,
      <<" ", "A", ":", " ", "x", " ">>,
      <<>>, <<"W">>, <<"1">>, <<"T">>, <<"N", " ", "x">> }

\* Bytes a character of the model stands for.
Width(c) == IF c = "L" THEN 50 ELSE 1

RECURSIVE TrimLeft(_)
TrimLeft(l) == IF l # <<>> /\ Head(l) = " " THEN TrimLeft(Tail(l)) ELSE l

RECURSIVE TrimRight(_)
TrimRight(l) ==
    IF l # <<>> /\ l[Len(l)] = " " THEN TrimRight(SubSeq(l, 1, Len(l) - 1))
    ELSE l

TrimSpace(l) == TrimRight(TrimLeft(l))

\* strings.Index(l, ": "): the byte offset of the first ": ", or -1.
ColonIndex(l) ==
    LET at == {k \in 1..(Len(l) - 1) : l[k] = ":" /\ l[k + 1] = " "}
        RECURSIVE bytes(_)
        bytes(k) == IF k = 0 THEN 0 ELSE bytes(k - 1) + Width(l[k])
    IN  IF at = {} THEN -1
        ELSE bytes((CHOOSE k \in at : \A j \in at : k <= j) - 1)

\* What follows the first ": " of l.
AfterColon(l) ==
    LET k == CHOOSE k \in 1..(Len(l) - 1) :
                 /\ l[k] = ":" /\ l[k + 1] = " "
                 /\ \A j \in 1..(k - 1) : ~(l[j] = ":" /\ l[j + 1] = " ")
    IN  SubSeq(l, k + 2, Len(l))

\* What precedes it.
BeforeColon(l) ==
    LET k == CHOOSE k \in 1..(Len(l) - 1) :
                 /\ l[k] = ":" /\ l[k + 1] = " "
                 /\ \A j \in 1..(k - 1) : ~(l[j] = ":" /\ l[j + 1] = " ")
    IN  SubSeq(l, 1, k - 1)

\* Only an equal text counts as a continuation.
HasPrefixExact(text, prefix) == text = prefix

HasPrefix(text, prefix) ==
    Len(prefix) <= Len(text) /\ SubSeq(text, 1, Len(prefix)) = prefix

\* Lines 263-279: empty lines, the header, cue numbers, timestamps and
\* NOTE/STYLE lines are skipped.
Skipped(trimmed) ==
    \/ trimmed = <<>>
    \/ trimmed = <<"W">>
    \/ \A k \in 1..Len(trimmed) : trimmed[k] = "1"
    \/ trimmed = <<"T">>
    \/ Head(trimmed) = "N"

\* Lines 283-288.
SpeakerOf(trimmed) ==
    IF ColonIndex(trimmed) > 0 /\ ColonIndex(trimmed) < 50
    THEN BeforeColon(trimmed) ELSE <<>>

TextOf(trimmed) ==
    IF ColonIndex(trimmed) > 0 /\ ColonIndex(trimmed) < 50
    THEN AfterColon(trimmed) ELSE trimmed

\* Lines 259-312: the body of the loop for one line.
ParseLine ==
    /\ mode = "vtt" /\ Len(vttIn) < MaxCues
    /\ \E line \in LineInputs :
          LET trimmed == TrimSpace(line)
              speaker == SpeakerOf(trimmed)
              text    == TextOf(trimmed)
              prev    == textLines[Len(textLines)]
              prevText == IF ColonIndex(prev) > 0 THEN AfterColon(prev)
                          ELSE prev
          IN  /\ vttIn' = Append(vttIn, line)
              /\ IF Skipped(trimmed)
                 THEN UNCHANGED <<textLines, lastSpeaker>>
                 ELSE IF Len(textLines) > 0 /\ speaker # <<>>
                         /\ lastSpeaker = speaker
                         /\ (HasPrefix(text, prevText) \/ text = prevText)
                 THEN /\ textLines' = [textLines EXCEPT ![Len(textLines)] = trimmed]
                      /\ UNCHANGED lastSpeaker
                 ELSE IF Len(textLines) > 0 /\ trimmed = prev
                 THEN UNCHANGED <<textLines, lastSpeaker>>
                 ELSE /\ textLines' = Append(textLines, trimmed)
                      /\ lastSpeaker' = speaker
    /\ UNCHANGED <<storeVars, lastOp, prevOp, preTables, nops, keys, poolVars,
                   migVars, slackVars, zoomVars, relVars, nameVars, lookVars, ctlVars,
                   fetchVars, anaVars, obsVars>>

\* Everything but the three parsers' variables, which each parser's
\* specification sets itself.
InitParserAt(at) ==
    /\ InitBaseAt(at) /\ NoSlack
    /\ mode = at
    /\ cfg = Config(1, <<>>, FALSE, FALSE, FALSE, TRUE)
    /\ llmKind = "mock" /\ putMayFail = FALSE
    /\ EmptyStore
    /\ fetch_log = <<>> /\ poolTimeout = DefaultTimeout /\ zPc = <<>>
    /\ zRec = <<>> /\ zCtxTimeout = <<>> /\ zCalls = 0 /\ zLast = <<>>

InitVTT ==
    /\ InitParserAt("vtt")
    /\ vttIn = <<>> /\ textLines = <<>> /\ lastSpeaker = <<>>
    /\ relInput = <<>> /\ relLines = <<>> /\ current = "none"
    /\ high = <<>> /\ medium = <<>> /\ low = <<>>
    /\ sigName = <<>> /\ normalized = <<>>
    /\ lookback = <<>> /\ parsed = <<>>

NextVTT == ParseLine

SpecVTT == InitVTT /\ [][NextVTT]_vars

\* ---------------------------------------------------------------------
\* The relevance item parser (parseRelevanceItems).  A line is a sequence
\* of characters and words; a word stands for its letters and holds no
\* space and no "#", "*" or "-".
\* ---------------------------------------------------------------------
MaxBullets == 2

Levels == {"HIGH", "MEDIUM", "LOW"}

\* strings.ToUpper, word by word.
ToUpperWord(w) ==
    CASE w = "high"      -> "HIGH"
      [] w = "medium"    -> "MEDIUM"
      [] w = "low"       -> "LOW"
      [] w = "Follow"    -> "FOLLOW"
      [] w = "Relevance" -> "RELEVANCE"
      [] w = "None this period." -> "NONE THIS PERIOD."
      [] OTHER           -> w

ToUpper(l) == [i \in 1..Len(l) |-> ToUpperWord(l[i])]

\* strings.Contains(upper, level): the level's letters lie within one word,
\* and FOLLOW holds LOW.
Contains(upper, level) ==
    \E i \in 1..Len(upper) :
        upper[i] = level \/ (upper[i] = "FOLLOW" /\ level = "LOW")

\* A header test that leaves out the prefix condition.
IsHeaderAnywhere(trimmed, upper, level) == Contains(upper, level)

\* Lines 198, 202, 206: the upper-cased line contains the level and the
\* line begins with "#" or "**".
IsHeader(trimmed, upper, level) ==
    /\ Contains(upper, level)
    /\ (HasPrefix(trimmed, <<"#">>) \/ HasPrefix(trimmed, <<"*", "*">>))

\* Line 212.
IsBullet(trimmed) ==
    HasPrefix(trimmed, <<"-", " ">>) \/ HasPrefix(trimmed, <<"*", " ">>)

\* The response format the system prompt asks for (lines 152-161), in the
\* heading styles the parser's comment and tests name.
Heading(style, level) ==
    CASE style = "hash" -> <<"#", "#", "#", "#", " ", level, " ", "Relevance">>
      [] style = "bold" -> <<"*", "*", level, " ", "Relevance", "*", "*">>
      [] OTHER          -> <<" ", "#", "#", " ",
                             CASE level = "HIGH" -> "high"
                               [] level = "MEDIUM" -> "medium"
                               [] OTHER -> "low",
                             " ", "Relevance", " ">>

Sentinel == <<"None this period.">>

\* Bullet bodies: a bold topic that names a level, and prose that holds the
\* letters of two levels.
Bodies == { <<"*", "*", "HIGH", "*", "*", " ", "x">>,
            <<"Follow", " ", "-", " ", "medium">> }

BulletLists ==
    UNION { [1..n -> Bodies] : n \in 0..MaxBullets }

SectionLines(style, marker, level, bodies) ==
    <<Heading(style, level)>>
    \o (IF bodies = <<>> THEN <<Sentinel>>
        ELSE [i \in 1..Len(bodies) |-> <<marker, " ">> \o bodies[i]])
    \o << <<>> >>

Orders == { o \in [1..3 -> Levels] : \A i, j \in 1..3 : i # j => o[i] # o[j] }

Layouts == { <<"hash", "-">>, <<"bold", "*">>, <<"lower", "-">> }

WellFormed ==
    { [order |-> o, style |-> ly[1], marker |-> ly[2], items |-> it] :
        o \in Orders, ly \in Layouts, it \in [Levels -> BulletLists] }

Render(in) ==
    SectionLines(in.style, in.marker, in.order[1], in.items[in.order[1]])
    \o SectionLines(in.style, in.marker, in.order[2], in.items[in.order[2]])
    \o SectionLines(in.style, in.marker, in.order[3], in.items[in.order[3]])

\* One iteration of the loop at lines 194-225.
ScanLine ==
    /\ mode = "relevance" /\ relLines # <<>>
    /\ LET line    == Head(relLines)
           trimmed == TrimSpace(line)
           upper   == ToUpper(trimmed)
           item    == TrimSpace(SubSeq(trimmed, 3, Len(trimmed)))
       IN  /\ relLines' = Tail(relLines)
           /\ IF IsHeader(trimmed, upper, "HIGH")
              THEN current' = "high" /\ UNCHANGED <<high, medium, low>>
              ELSE IF IsHeader(trimmed, upper, "MEDIUM")
              THEN current' = "medium" /\ UNCHANGED <<high, medium, low>>
              ELSE IF IsHeader(trimmed, upper, "LOW")
              THEN current' = "low" /\ UNCHANGED <<high, medium, low>>
              ELSE IF IsBullet(trimmed) /\ item # <<>>
              THEN /\ high' = IF current = "high" THEN Append(high, item)
                              ELSE high
                   /\ medium' = IF current = "medium" THEN Append(medium, item)
                                ELSE medium
                   /\ low' = IF current = "low" THEN Append(low, item)
                             ELSE low
                   /\ UNCHANGED current
              ELSE UNCHANGED <<current, high, medium, low>>
    /\ UNCHANGED <<storeVars, lastOp, prevOp, preTables, nops, keys, poolVars,
                   migVars, slackVars, zoomVars, vttVars, nameVars, lookVars, relInput,
                   ctlVars, fetchVars, anaVars, obsVars>>

InitRelevance ==
    /\ InitParserAt("relevance")
    /\ vttIn = <<>> /\ textLines = <<>> /\ lastSpeaker = <<>>
    /\ relInput \in WellFormed
    /\ relLines = Render(relInput)
    /\ current = "none"
    /\ high = <<>> /\ medium = <<>> /\ low = <<>>
    /\ sigName = <<>> /\ normalized = <<>>
    /\ lookback = <<>> /\ parsed = <<>>

NextRelevance == ScanLine

SpecRelevance == InitRelevance /\ [][NextRelevance]_vars

\* ---------------------------------------------------------------------
\* normalizeSIGName.  A name is a sequence over "&", ";", " ", an emoji "E"
\* and three runs of letters: "amp" (the name of the entity for "&"), "Amp"
\* (its mixed-case spelling, which names no entity) and "z".
\* ---------------------------------------------------------------------
MaxNameLen == 3

NameAlphabet == {"&", ";", " ", "E", "amp", "Amp", "z"}

Letters == {"amp", "Amp", "z"}

Names == UNION { [1..n -> NameAlphabet] : n \in 0..MaxNameLen }

\* html.UnescapeString: one pass from the left; "&amp;" and, outside an
\* attribute, "&amp" without its semicolon (also as the prefix of a longer
\* run of letters) become "&"; the output is not scanned again.
RECURSIVE UnescapeString(_)
UnescapeString(s) ==
    IF s = <<>> THEN <<>>
    ELSE IF s[1] = "&" /\ Len(s) >= 2 /\ s[2] = "amp"
    THEN <<"&">> \o UnescapeString(
             IF Len(s) >= 3 /\ s[3] = ";" THEN SubSeq(s, 4, Len(s))
             ELSE SubSeq(s, 3, Len(s)))
    ELSE <<s[1]>> \o UnescapeString(Tail(s))

RECURSIVE LetterRun(_)
LetterRun(s) ==
    IF s # <<>> /\ s[1] \in Letters THEN 1 + LetterRun(Tail(s)) ELSE 0

\* htmlEntityPattern.ReplaceAllString(s, ""): the leftmost matches of
\* &[a-zA-Z]+; are removed in one pass.
RECURSIVE StripEntities(_)
StripEntities(s) ==
    IF s = <<>> THEN <<>>
    ELSE LET n == LetterRun(Tail(s))
         IN  IF s[1] = "&" /\ n >= 1 /\ Len(s) >= n + 2 /\ s[n + 2] = ";"
             THEN StripEntities(SubSeq(s, n + 3, Len(s)))
             ELSE <<s[1]>> \o StripEntities(Tail(s))

\* emojiPattern.ReplaceAllString(s, "").
StripEmoji(s) == SelectSeq(s, LAMBDA c : c # "E")

\* strings.ToLower.
ToLower(s) == [i \in 1..Len(s) |-> IF s[i] = "Amp" THEN "amp" ELSE s[i]]

\* strings.Join(strings.FieldsFunc(s, unicode.IsSpace), " ").
RECURSIVE CollapseSpace(_)
CollapseSpace(s) ==
    IF s = <<>> THEN <<>>
    ELSE IF s[1] = " " /\ (Len(s) = 1 \/ s[2] = " ")
    THEN CollapseSpace(Tail(s))
    ELSE <<s[1]>> \o CollapseSpace(Tail(s))

normalizeSIGName(name) ==
    CollapseSpace(TrimLeft(ToLower(StripEmoji(StripEntities(UnescapeString(name))))))

\* deduplicateDigestSIGs normalizes one report's name.
NormalizeName ==
    /\ mode = "name" /\ normalized = <<>>
    /\ normalized' = Some(normalizeSIGName(sigName))
    /\ UNCHANGED <<storeVars, lastOp, prevOp, preTables, nops, keys, poolVars,
                   migVars, slackVars, zoomVars, vttVars, relVars, lookVars, sigName,
                   ctlVars, fetchVars, anaVars, obsVars>>

InitName ==
    /\ InitParserAt("name")
    /\ vttIn = <<>> /\ textLines = <<>> /\ lastSpeaker = <<>>
    /\ relInput = <<>> /\ relLines = <<>> /\ current = "none"
    /\ high = <<>> /\ medium = <<>> /\ low = <<>>
    /\ sigName \in Names /\ normalized = <<>>
    /\ lookback = <<>> /\ parsed = <<>>

NextName == NormalizeName

SpecName == InitName /\ [][NextName]_vars

\* ---------------------------------------------------------------------
\* ParseLookback.  A lookback string is a sequence of decimal numbers and
\* unit letters ("2h30m" is <<"2", "h", "30", "m">>); durations are in seconds.
\* ---------------------------------------------------------------------
MaxTokens == 4

LookNumbers == {"1", "2", "30"}

\* The value of a run of decimal digits.
Atoi(n) == CASE n = "1" -> 1 [] n = "2" -> 2 [] OTHER -> 30

LookUnits == {"h", "m", "s", "d", "w", "H"}

Hour == 3600

\* Strings: no two numbers are adjacent (they would be one number).
LookbackInputs ==
    { s \in UNION { [1..n -> LookNumbers \cup LookUnits] : n \in 0..MaxTokens } :
        \A i \in 1..(Len(s) - 1) :
            ~(s[i] \in LookNumbers /\ s[i + 1] \in LookNumbers) }

\* strings.ToLower.
LowerUnits(s) == [i \in 1..Len(s) |-> IF s[i] = "H" THEN "h" ELSE s[i]]

\* len(s) in bytes.
RECURSIVE ByteLen(_)
ByteLen(s) ==
    IF s = <<>> THEN 0
    ELSE (IF Head(s) = "30" THEN 2 ELSE 1) + ByteLen(Tail(s))

UnitSeconds(u) ==
    CASE u = "h" -> Hour
      [] u = "m" -> 60
      [] OTHER   -> 1

\* time.ParseDuration: one or more <number><unit> pairs with unit h, m or
\* s, in any order; the value is their sum.
IsGoDuration(s) ==
    /\ Len(s) > 0 /\ Len(s) % 2 = 0
    /\ \A i \in 1..Len(s) :
          IF i % 2 = 1 THEN s[i] \in LookNumbers
          ELSE s[i] \in {"h", "m", "s"}

RECURSIVE ParseDuration(_)
ParseDuration(s) ==
    IF s = <<>> THEN 0
    ELSE Atoi(s[1]) * UnitSeconds(s[2]) + ParseDuration(SubSeq(s, 3, Len(s)))

\* fmt.Sscanf(numStr, "%d", &num) succeeds when numStr begins with digits;
\* what follows the digits is left unread.
SscanfOk(numStr) == numStr # <<>> /\ numStr[1] \in LookNumbers

Ok(d) == <<"ok", d>>

Failed == <<"error">>

ParseLookback(str) ==
    IF str = <<>> THEN Ok(7 * 24 * Hour)
    ELSE LET s      == LowerUnits(str)
             numStr == SubSeq(s, 1, Len(s) - 1)
             unit   == s[Len(s)]
         IN  IF ByteLen(s) < 2 THEN Failed
             ELSE IF unit \in {"d", "w", "m"} /\ SscanfOk(numStr)
             THEN CASE unit = "d" -> Ok(Atoi(numStr[1]) * 24 * Hour)
                    [] unit = "w" -> Ok(Atoi(numStr[1]) * 7 * 24 * Hour)
                    [] OTHER      -> Ok(Atoi(numStr[1]) * 30 * 24 * Hour)
             ELSE IF IsGoDuration(s) THEN Ok(ParseDuration(s))
             ELSE Failed

ParseLookbackCall ==
    /\ mode = "lookback" /\ parsed = <<>>
    /\ parsed' = ParseLookback(lookback)
    /\ UNCHANGED <<storeVars, lastOp, prevOp, preTables, nops, keys, poolVars,
                   migVars, slackVars, zoomVars, vttVars, relVars, nameVars,
                   lookback, ctlVars, fetchVars, anaVars, obsVars>>

InitLookback ==
    /\ InitParserAt("lookback")
    /\ vttIn = <<>> /\ textLines = <<>> /\ lastSpeaker = <<>>
    /\ relInput = <<>> /\ relLines = <<>> /\ current = "none"
    /\ high = <<>> /\ medium = <<>> /\ low = <<>>
    /\ sigName = <<>> /\ normalized = <<>>
    /\ lookback \in LookbackInputs /\ parsed = <<>>

NextLookback == ParseLookbackCall

SpecLookback == InitLookback /\ [][NextLookback]_vars

\* ---------------------------------------------------------------------
\* SpecRegistry: FetchOnly's steps 1, 2 and 4 over the catalogs that
\* registry.Parse can return.  Parse appends one row per table line with a
\* name and does not compare identifiers, so two lines whose names
\* normalize alike give two rows.
\* ---------------------------------------------------------------------
MaxRows == 3

RegistryNames == {"G1", "g1", "G2", "L1"}

CategoryOf(name) == IF name = "L1" THEN "localization" ELSE "specification"

\* registry.Parse on a table of the given names.
Parse(names) ==
    [k \in 1..Len(names) |-> CatalogRow(names[k], CategoryOf(names[k]), "", "")]

ParsedCatalogs ==
    { Parse(names) : names \in UNION { [1..n -> RegistryNames] : n \in 1..MaxRows } }

\* Lines 566-579: the parsed rows are upserted and filtered.
RegistryPrepare ==
    /\ mode = "registry" /\ mainPc = "start"
    /\ \E rows \in ParsedCatalogs :
          /\ sigs' = UpsertAll(UpsertSIGOp, sigs, rows, clock)
          /\ todo' = filterSIGs(rows, cfg.SIGs)
    /\ mainPc' = "submit"
    /\ UNCHANGED <<meeting_notes, video_transcripts, slack_messages,
                   analysis_cache, clock, histVars, cfg, mode, envVars, idx,
                   result, recordings, sem, pc, ctxCancelled, gerr, fetchVars,
                   anaVars, obsVars>>

\* Lines 597-602: one g.Go per element of filteredSIGs.
RegistryGo ==
    /\ mode = "registry" /\ mainPc = "submit"
    /\ idx <= Len(todo)
    /\ idx' = idx + 1
    /\ UNCHANGED <<storeVars, histVars, cfg, mode, envVars, mainPc, result,
                   todo, recordings, sem, pc, ctxCancelled, gerr, fetchVars,
                   anaVars, obsVars>>

InitRegistry ==
    /\ InitLocalsAt("start")
    /\ llmKind = "mock" /\ putMayFail = FALSE
    /\ mode = "registry"
    /\ cfg \in {Config(1, f, FALSE, FALSE, FALSE, TRUE) : f \in Filters}
    /\ EmptyStore

NextRegistry == RegistryPrepare \/ RegistryGo

SpecRegistry == InitRegistry /\ [][NextRegistry]_vars

(***************************************************************************)
(* The Markdown emitter (internal/report): the digest document as the      *)
(* sequence of its group entries, section by section.  The title, the      *)
(* generation time and the run-info table do not depend on the groups'     *)
(* order and are left out.                                                 *)
(***************************************************************************)
\* The mock LLM's reply has no leveled bullet, so it parses to no item.
totalRelevanceItems(rr) == 0

\* One report per normalized name (the fixture names normalize to the group
\* ids), the one with the most items, at the position of the first.
deduplicateDigestSIGs(reports) ==
    LET count(k) == IF reports[k].relevance = Nil THEN 0
                    ELSE totalRelevanceItems(reports[k].relevance[1])
        same(k)  == {j \in 1..Len(reports) : reports[j].sig_id = reports[k].sig_id}
        first(k) == \A j \in same(k) : k <= j
        best(k)  == CHOOSE j \in same(k) :
                       /\ \A m \in same(k) : count(m) <= count(j)
                       /\ \A m \in same(k) : count(m) = count(j) => j <= m
        firsts   == SelectSeq([k \in 1..Len(reports) |-> k], first)
    IN  [n \in 1..Len(firsts) |-> reports[best(firsts[n])]]

sourceStatus(sourceType, used, missing) ==
    IF sourceType \in SeqToSet(used) THEN "used"
    ELSE IF sourceType \in SeqToSet(missing) THEN "missing" ELSE "none"

sigStatus(r) ==
    IF r.relevance # Nil THEN "Complete"
    ELSE IF Len(r.sources_used) > 0 THEN "Partial" ELSE "No data"

GenerateDigestReport(d) ==
    LET deduped  == deduplicateDigestSIGs(d.sig_reports)
        isActive(r) == r.relevance # Nil /\ totalRelevanceItems(r.relevance[1]) > 0
        isQuiet(r)  == ~isActive(r)
        active   == SelectSeq(deduped, isActive)
        quiet    == SelectSeq(deduped, isQuiet)
    IN  [summaries |-> [k \in 1..Len(active) |-> active[k].sig_id],
         quiet     |-> [k \in 1..Len(quiet) |-> quiet[k].sig_id],
         stats     |-> [k \in 1..Len(deduped) |->
                          <<deduped[k].sig_id,
                            sourceStatus("notes", deduped[k].sources_used,
                                         deduped[k].sources_missing),
                            sourceStatus("video", deduped[k].sources_used,
                                         deduped[k].sources_missing),
                            sourceStatus("slack", deduped[k].sources_used,
                                         deduped[k].sources_missing),
                            sigStatus(deduped[k])>>]]

(***************************************************************************)
(* Properties.                                                             *)
(***************************************************************************)
RunningTasks == {i \in Tasks : Running(i)}

InScope == 1..Len(todo)

\* C1: in the fetch phase and in the analyze phase alike, with a worker
\* limit N >= 1, at most N per-group tasks are started and not yet finished
\* at any moment.
C1_WorkerLimit ==
    cfg.Workers >= 1 => Cardinality(RunningTasks) <= cfg.Workers

\* The limit binds: it is reached while a further group waits to be submitted.
C1_Witness ==
    /\ mode \in {"fetch", "analyze"}
    /\ Cardinality(RunningTasks) = cfg.Workers
    /\ mainPc = "submit" /\ idx <= Len(todo)
    /\ \E i \in Tasks : pc[i] = "done"

\* The adapter calls fetchSIG's configuration makes eligible for a group.
EligibleAdapters(sig) ==
    (IF ~cfg.SkipNotes /\ sig.notes_doc_id # "" THEN {"notes"} ELSE {})
    \cup (IF ~cfg.SkipVideos
          THEN {recordings[k].zoom_url :
                   k \in {j \in 1..Len(recordings) : recordings[j].sig_id = sig.id}}
          ELSE {})
    \cup (IF ~cfg.SkipSlack /\ cfg.SlackCreds /\ sig.slack_channel_id # ""
          THEN {"slack"} ELSE {})

\* C2: in the fetch phase a failed adapter call (notes, a transcript, chat)
\* neither keeps the group's remaining adapters from being attempted nor
\* keeps another in-scope group's task from running: a finished task has
\* attempted every eligible adapter, and when the phase has returned every
\* in-scope group's task has finished.
C2_FetchDegrades ==
    mode = "fetch" =>
        /\ \A i \in InScope :
              pc[i] = "done" => attempted[i] = EligibleAdapters(todo[i])
        /\ (mainPc = "returned" => \A i \in InScope : pc[i] = "done")

\* A group whose notes and first transcript failed still tried its second
\* transcript and its chat, and another group fetched after it.
C2_Witness ==
    /\ mode = "fetch" /\ mainPc = "returned" /\ ~ctxCancelled
    /\ \E i, j \in InScope :
          /\ i < j
          /\ {"notes", "u1"} \subseteq failed[i]
          /\ {"u2", "slack"} \subseteq attempted[i] \ failed[i]
          /\ attempted[j] # {} /\ failed[j] = {}

\* C3: when the analysis cache holds the entries an earlier analyze_only
\* wrote (every stage it ran ended with its entry written) and the store and
\* the window are unchanged, a second analyze_only issues no LLM call.
C3_SecondRunNoCalls ==
    (run = 2 /\ firstClean /\ window = firstWindow) => llmCalls = 0

\* The second run went through all five stages of a group on cache hits.
C3_Witness ==
    /\ run = 2 /\ firstClean /\ window = firstWindow
    /\ mainPc = "returned" /\ result = "ok"
    /\ Cardinality(analysis_cache) = 5
    /\ \E i \in InScope : stageLog[i] = Sources \o <<"synth", "score">>
    /\ digest # Nil /\ digest[1].sigs_with_data = 1

\* A table with the refreshed timestamp column blanked.
Blank(tbl, col) == {[r EXCEPT ![col] = 0] : r \in tbl}

SameButTime(t1, t2, col) ==
    Blank(t1, col) = Blank(t2, col) /\ Cardinality(t1) = Cardinality(t2)

SameStore(a, b) ==
    /\ SameButTime(a.sigs, b.sigs, "updated_at")
    /\ SameButTime(a.meeting_notes, b.meeting_notes, "fetched_at")
    /\ SameButTime(a.video_transcripts, b.video_transcripts, "fetched_at")
    /\ SameButTime(a.slack_messages, b.slack_messages, "fetched_at")
    /\ SameButTime(a.analysis_cache, b.analysis_cache, "created_at")

Repeated == lastOp # Nil /\ lastOp = prevOp

\* C4: for every record kind with a uniqueness key (group, meeting record,
\* transcript record, chat message, analysis-cache entry), upserting the
\* same record a second time leaves the store as the first upsert left it:
\* the same rows with the same field values, the timestamp apart.
C4_UpsertIdempotent ==
    Repeated => SameStore(Tables, preTables[1].tables)

\* A meeting record upserted twice, a second apart, over an older row of the
\* same key that came from another document: one row, refreshed.
C4_Witness ==
    /\ Repeated /\ lastOp[1].kind = "note" /\ nops = 3
    /\ \E r \in meeting_notes :
          /\ r.doc_id # lastOp[1].rec.doc_id
          /\ r.raw_text = lastOp[1].rec.raw_text
          /\ r.fetched_at = clock
          /\ \E q \in preTables[1].tables.meeting_notes :
                q.fetched_at < r.fetched_at
    /\ Cardinality(meeting_notes) = 1

\* C5: within one group's analysis, synthesize starts only after the three
\* source-summary attempts (notes, video, chat) have completed, and the
\* priority score only after synthesize has returned its result.
C5_StageOrder ==
    \A i \in Tasks :
        /\ \A k \in 1..Len(stageLog[i]) :
              LET before == {stageLog[i][j] : j \in 1..(k - 1)} IN
              /\ stageLog[i][k] = "synth" => SeqToSet(Sources) \subseteq before
              /\ stageLog[i][k] = "score" => "synth" \in before
        /\ pc[i] = "a_synth" => SeqToSet(stageLog[i]) = SeqToSet(Sources)
        /\ pc[i] = "a_score" => synthesis[i] # None

C5_Witness ==
    \E i \in InScope :
        /\ stageLog[i] = Sources \o <<"synth", "score">>
        /\ Len(sourcesUsed[i]) = 1 /\ Len(sourcesMissing[i]) = 2

\* C6: FetchOnly and AnalyzeOnly return only after every per-group task
\* they submitted has finished: once g.Wait has returned no task runs.
C6_ReturnAfterDrain ==
    mainPc \in {"emit", "returned"} =>
        /\ RunningTasks = {}
        /\ \A i \in InScope : i < idx => pc[i] = "done"

C6_Witness ==
    /\ mainPc = "returned" /\ result = "ok" /\ cfg.Workers = 2
    /\ Len(todo) = 3 /\ \A i \in InScope : pc[i] = "done"

\* C7: for every interleaving of the analyze workers the list of
\* GroupReports handed to the emitter holds exactly one report for each
\* in-scope group.
C7_OneReportEach ==
    digest # Nil =>
        LET reps == digest[1].sig_reports IN
        /\ Len(reps) = Len(todo)
        /\ \A i \in InScope :
              Cardinality({k \in 1..Len(reps) : reps[k].sig_id = todo[i].id}) = 1

\* Three groups analysed by two workers, reported out of submission order.
C7_Witness ==
    /\ digest # Nil /\ cfg.Workers = 2 /\ Len(todo) = 3
    /\ digest[1].sig_reports[1].sig_id = todo[2].id

\* C8 (as claimed): after the context is cancelled the pool starts no
\* further per-group task.
C8_NoStartAfterCancel == startedAfterCancel = {}

\* C9 (as claimed): a phase during which the context was cancelled returns
\* an error, not success.
C9_CancelReturnsError ==
    (mainPc = "returned" /\ ctxCancelled) => result # "ok"

\* C10: if synthesize or the priority score fails for a group, the analyze
\* phase still completes without error and the digest holds a GroupReport
\* for that group whose RelevanceReport is null.
C10_PartialReport ==
    \A i \in InScope :
        (mode = "analyze" /\ mainPc = "returned" /\ taskErr[i]) =>
            /\ result = "ok"
            /\ digest # Nil
            /\ \E k \in 1..Len(digest[1].sig_reports) :
                  /\ digest[1].sig_reports[k].sig_id = todo[i].id
                  /\ digest[1].sig_reports[k].relevance = Nil

\* One group's score failed after its synthesis, another group's report
\* carries a relevance report.
C10_Witness ==
    /\ mode = "analyze" /\ mainPc = "returned" /\ ~ctxCancelled
    /\ \E i, j \in InScope :
          /\ taskErr[i] /\ stageLog[i][Len(stageLog[i])] = "score"
          /\ sr[j].relevance # Nil

\* The report the digest holds for in-scope group i.
DigestReportOf(i) ==
    LET reps == digest[1].sig_reports
    IN  reps[CHOOSE k \in 1..Len(reps) : reps[k].sig_id = todo[i].id]

\* C11 (as claimed): for every GroupReport in the digest, sources-used is
\* exactly the set of sources whose summary succeeded for that group in this
\* run, and sources-missing is exactly the rest of {notes, video, chat}.
C11_SourcesExact ==
    digest # Nil =>
        \A i \in InScope :
            /\ SeqToSet(DigestReportOf(i).sources_used) = SeqToSet(sourcesUsed[i])
            /\ SeqToSet(DigestReportOf(i).sources_missing) =
                  SeqToSet(Sources) \ SeqToSet(sourcesUsed[i])

\* C13 (as claimed): when the emitter fails to write the digest, AnalyzeOnly
\* returns an error instead of completing successfully.
C13_EmitFailureFatal ==
    (mode = "analyze" /\ mainPc = "returned" /\ digest # Nil
        /\ ~digest[1].written) => result = "error"

\* C12 (as claimed): when at least one adapter failed during a report run
\* and a report was nevertheless written, the run ends with the
\* partial-failure outcome (exit code 1), not with success (exit code 0).
C12_PartialExit ==
    (/\ cfg.Command = "report" /\ mainPc = "exited"
     /\ \E i \in Tasks : failed[i] # {}
     /\ digest # Nil /\ digest[1].written) => result = "exit1"

\* C14 (as claimed): a configuration that fails validation is reported as a
\* configuration error (exit code 3) before any pipeline work is started,
\* for the report command and for the fetch command.
C14_ConfigErrorFirst ==
    (cfg.Command \in {"report", "fetch"} /\ ~Validate(cfg)) =>
        \/ mainPc = "cmd"
        \/ mainPc = "exited" /\ result = "exit3"

\* The stored records of group g in tbl whose date or timestamp falls on a
\* day of [s, e], whatever the time of day.
OnDays(tbl, col, g, s, e) ==
    {r \in tbl : r.sig_id = g /\ s <= r[col][1] /\ r[col][1] <= e}

\* C15 (as claimed): the meeting-record get, the transcript get and the chat
\* get return, for every group g and window [s, e], exactly the stored
\* records of g dated within [start-of-day(s), end-of-day(e)].
C15_WindowExact ==
    \A g \in {"g1", "g2"} : \A s, e \in 0..MaxDay :
        s <= e =>
            /\ SeqToSet(GetMeetingNotes(g, <<s, 1>>, <<e, 1>>))
                  = OnDays(meeting_notes, "meeting_date", g, s, e)
            /\ SeqToSet(GetVideoTranscripts(g, <<s, 1>>, <<e, 1>>))
                  = OnDays(video_transcripts, "recording_date", g, s, e)
            /\ SeqToSet(GetSlackMessages(g, <<s, 1>>, <<e, 1>>))
                  = OnDays(slack_messages, "message_date", g, s, e)

\* The scenario: the store's gets return two meeting records, one chat
\* message and no transcript for the one in-scope group, the cache was
\* empty at the start of the run, and every LLM call of the run was answered.
TwoNotesOneMessage ==
    /\ mode = "analyze" /\ run = 1 /\ mainPc = "returned" /\ ~llmFailed
    /\ Len(todo) = 1
    /\ Len(GetMeetingNotes(todo[1].id, WindowStart, WindowEnd)) = 2
    /\ Len(GetVideoTranscripts(todo[1].id, WindowStart, WindowEnd)) = 0
    /\ Len(GetSlackMessages(todo[1].id, WindowStart, WindowEnd)) = 1

KeyTuple(t) == <<t.sig_id, t.stage, t.start[1], t.end[1], t.content>>

\* C17: cache keys computed from equal (group-id, stage, window-start,
\* window-end, input-content) tuples are equal, and tuples that differ in
\* any one component yield different cache keys.
C17_KeyInjective ==
    \A a, b \in 1..Len(keys) :
        (keys[a].key = keys[b].key) <=>
            (KeyTuple(keys[a].tuple) = KeyTuple(keys[b].tuple))

\* Two keys were computed: one pair of tuples equal as dates though taken at
\* different times of day, or a pair differing in the stage tag alone.
C17_Witness ==
    /\ Len(keys) = 2
    /\ \/ /\ keys[1].tuple # keys[2].tuple
          /\ KeyTuple(keys[1].tuple) = KeyTuple(keys[2].tuple)
          /\ keys[1].key = keys[2].key
       \/ /\ keys[1].tuple.stage # keys[2].tuple.stage
          /\ [keys[1].tuple EXCEPT !.stage = "notes"]
                = [keys[2].tuple EXCEPT !.stage = "notes"]
          /\ keys[1].key # keys[2].key

\* The cache row Score's lookup finds for task i, if any.
ScoreLookup(i) ==
    GetAnalysisCache(buildCacheKey(todo[i].id, "relevance", WindowStart,
                                   WindowEnd, hashContent(synthesis[i])))

\* C18 (as claimed): the priority score is memoized on its whole stage
\* input, system prompt with the user's additional context included: the
\* entry a score request gets from the cache was written under the
\* additional context of that request.
C18_ScoreKeyedOnContext ==
    \A i \in InScope :
        (pc[i] = "a_score" /\ ScoreLookup(i) # Nil) =>
            ScoreLookup(i)[1].prompt_hash =
                hashContent(buildRelevanceSystemPrompt(cfg.CustomContext))

\* C19 (as claimed): a put_cache that happens-before a get_cache with the
\* same key is visible to that read, on every store path, the in-memory
\* sentinel included, and between concurrently running workers.
C19_PutVisible == missed = {}

\* C20 (as claimed): when New has returned, with or without an error, the
\* schema change of a migration is in the database iff its version is
\* recorded in schema_version.
C20_MigrationAtomic == (opens > 0 /\ openRes # "none") => applied = versions


\* The report analyzeSIG builds for a group when every LLM call answers: the
\* sources with records in the window are used, the others missing, and the
\* relevance report is attached when some source was used.
ExpectedReport(sig) ==
    LET used    == SelectSeq(Sources, LAMBDA s : Len(SourceRows(s, sig.id)) > 0)
        missing == SelectSeq(Sources, LAMBDA s : Len(SourceRows(s, sig.id)) = 0)
    IN  SIGReport(sig, used, missing,
                  IF Len(used) > 0
                  THEN Some([report |-> "summary", tokens_used |-> 1])
                  ELSE Nil)

InSubmissionOrder(d) ==
    [d EXCEPT !.sig_reports =
        [i \in 1..Len(todo) |->
            d.sig_reports[CHOOSE k \in 1..Len(d.sig_reports) :
                             d.sig_reports[k].sig_id = todo[i].id]]]

\* C22 (as claimed): for a fixed group filter and fixed stored inputs the
\* emitted digest is the same for every order in which the analyze workers
\* finish: it is the document emitted when they finish in submission order.
C22_DigestOrderFixed ==
    (mode = "analyze" /\ digest # Nil /\ ~llmFailed /\ ~ctxCancelled
        /\ digest[1].written) =>
        GenerateDigestReport(digest[1])
            = GenerateDigestReport(InSubmissionOrder(digest[1]))


ChannelRows(tbl, c) == {r \in tbl : r.channel_id = c}

MessageKeys(tbl) == {<<r.channel_id, r.message_ts>> : r \in tbl}

\* C23: with history served in two pages holding three top-level messages,
\* one of them with reply_count = 1 and a replies page holding the parent
\* and one reply, a fetch leaves exactly 4 rows for the channel (three
\* without and one with a thread parent), and a repeated fetch adds none.
C23_FourRowsThenNone ==
    (slackAPI = Scenario("") /\ ~slackFlaky /\ sFetches[1] >= 1) =>
        LET rows == ChannelRows(slack_messages, "C1") IN
        /\ Cardinality(rows) = 4
        /\ Cardinality({r \in rows : r.thread_ts = ""}) = 3
        /\ Cardinality({r \in rows : r.thread_ts = "200.1"}) = 1
        /\ MessageKeys(rows)
              = MessageKeys(ChannelRows(sAfterFirst[1][1], "C1"))

\* The fetch of C1 has run twice against the two-page history.
C23_Witness ==
    /\ slackAPI = Scenario("") /\ ~slackFlaky /\ sFetches[1] = 2
    /\ Len(allMessages[1]) = 3
    /\ Cardinality(ChannelRows(slack_messages, "C1")) = 4


\* The timestamps of the messages the history of channel c serves.
TopLevelTS(c) ==
    UNION {{pg[k].ts : k \in 1..Len(pg)} :
              pg \in SeqToSet(slackAPI.history[c])}

\* C24 (as claimed): after any sequence of chat fetches every stored
\* top-level message has an empty thread-parent timestamp, and every stored
\* thread reply has the message timestamp of its parent, itself a stored
\* top-level message of the channel.
C24_ThreadParents ==
    mode = "slack" =>
        \A r \in slack_messages :
            IF r.message_ts \in TopLevelTS(r.channel_id)
            THEN r.thread_ts = ""
            ELSE /\ r.thread_ts \in TopLevelTS(r.channel_id)
                 /\ \E q \in slack_messages :
                       /\ q.channel_id = r.channel_id
                       /\ q.message_ts = r.thread_ts


\* C25: every conversations.history and conversations.replies request is
\* sent after an acquisition of its own from the limiter the chat tasks
\* share: a task holds an acquisition exactly while it is about to send,
\* and no request has left without one.
C25_AcquireBeforeRequest ==
    mode = "slack" =>
        /\ sUnlicensed = 0
        /\ \A t \in SlackTasks :
              sAcquired[t] <=> sPc[t] \in {"history", "thread"}

\* One task is about to request a replies page on its acquisition while
\* the other waits at the limiter for a history page, with waits that can
\* fail.
C25_Witness ==
    /\ mode = "slack" /\ slackFlaky /\ tokens = 0
    /\ sPc[1] = "thread" /\ sAcquired[1]
    /\ sPc[2] = "wait_history" /\ sFetches[2] = 1


\* C26 (as claimed): for a recording whose duration in minutes lies in
\* (0, 2) the transcript adapter writes no transcript row and appends a
\* fetch_log row with status skipped.
C26_ShortSkippedAndLogged ==
    mode = "zoom" =>
        \A t \in ZoomTasks :
            (zLast[t] # Nil /\ zLast[t][1].rec.zoom_url # ""
             /\ ~LongEnough(zLast[t][1].rec)) =>
                /\ ~zLast[t][1].wrote
                /\ zLast[t][1].logged = "skipped"


\* C28 (as claimed): while group tasks run concurrently the store is the
\* only mutable state they share: no task is writing a field outside the
\* store (here the browser pool's timeout) while another task is about to
\* read or write the same field.
C28_OnlyStoreShared ==
    mode = "zoom" =>
        ~ \E t1, t2 \in ZoomTasks :
              /\ t1 # t2
              /\ zPc[t1] = "set_timeout"
              /\ zPc[t2] \in {"set_timeout", "new_context"}


\* The speaker tag of a retained line: what precedes a ": " found within
\* its first 50 bytes; <<>> when there is none.
TagOf(l) ==
    IF ColonIndex(l) >= 0 /\ ColonIndex(l) < 50 THEN BeforeColon(l) ELSE <<>>

BodyOf(l) ==
    IF ColonIndex(l) >= 0 /\ ColonIndex(l) < 50 THEN AfterColon(l) ELSE l

\* The collapse rule applied to the dialog lines of ls from left to right.
RECURSIVE Collapse(_, _)
Collapse(retained, ls) ==
    IF ls = <<>> THEN retained
    ELSE LET l    == TrimSpace(Head(ls))
             last == retained[Len(retained)]
         IN  IF Skipped(l) THEN Collapse(retained, Tail(ls))
             ELSE IF retained # <<>> /\ TagOf(l) # <<>>
                     /\ TagOf(l) = TagOf(last)
                     /\ Len(BodyOf(last)) <= Len(BodyOf(l))
                     /\ SubSeq(BodyOf(l), 1, Len(BodyOf(last))) = BodyOf(last)
             THEN Collapse([retained EXCEPT ![Len(retained)] = l], Tail(ls))
             ELSE IF retained # <<>> /\ l = last
             THEN Collapse(retained, Tail(ls))
             ELSE Collapse(Append(retained, l), Tail(ls))

\* C27: the lines parseVTT retains are those of the collapse rule: a dialog
\* line with the speaker of the previous retained line whose body starts
\* with or equals that line's body replaces it; otherwise a line equal to
\* the previous retained line is dropped; otherwise the line is retained.
\* Hence A: x, A: xy, B: x yield the two lines A: xy and B: x.
C27_CollapseRule ==
    mode = "vtt" =>
        /\ textLines = Collapse(<<>>, vttIn)
        /\ vttIn = << <<"A", ":", " ", "x">>, <<"A", ":", " ", "x", "y">>,
                      <<"B", ":", " ", "x">> >>
              => textLines = << <<"A", ":", " ", "x", "y">>,
                                <<"B", ":", " ", "x">> >>

\* The three cues of the example have been parsed.
C27_Witness ==
    /\ mode = "vtt"
    /\ vttIn = << <<"A", ":", " ", "x">>, <<"A", ":", " ", "x", "y">>,
                  <<"B", ":", " ", "x">> >>
    /\ Len(textLines) = 2

\* C29: for a response of exactly three leveled sections, each holding
\* bullets or the line "None this period.", the scan returns for each level
\* the bullets under that level's heading, in input order, and the empty
\* list for a section without bullets.
C29_SectionsRoundTrip ==
    (mode = "relevance" /\ relLines = <<>>)
        => /\ high = relInput.items["HIGH"]
           /\ medium = relInput.items["MEDIUM"]
           /\ low = relInput.items["LOW"]

\* A finished scan of a response whose first section is LOW with two
\* different bullets, one of them naming HIGH, and whose HIGH section holds
\* only the sentinel.
C29_Witness ==
    /\ mode = "relevance" /\ relLines = <<>>
    /\ relInput.order[1] = "LOW"
    /\ relInput.items["HIGH"] = <<>> /\ high = <<>>
    /\ Len(low) = 2 /\ low[1] # low[2]
    /\ Len(medium) = 1

\* C30: the name normalization used for digest deduplication is idempotent:
\* normalizing a normalized name gives the same name.
C30_NormalizeIdempotent ==
    (mode = "name" /\ normalized # <<>>)
        => normalizeSIGName(normalized[1]) = normalized[1]

\* C31: a lookback string that is a standard Go-duration string and is not
\* of the form <N>d, <N>w or <N>m with N an integer (1h, 30s, 2h30m) is
\* parsed to exactly its Go-duration value.
C31_GoDurationExact ==
    (mode = "lookback" /\ parsed # <<>>
        /\ IsGoDuration(lookback)
        /\ ~(Len(lookback) = 2 /\ lookback[2] \in {"d", "w", "m"}))
        => parsed = Ok(ParseDuration(lookback))

\* The groups the fetch phase selects for the configured filter, among the
\* groups present in the store.
FetchSelected ==
    {g.id : g \in SeqToSet(filterSIGs(Catalog, cfg.SIGs))}
        \cap {r.id : r \in sigs}

\* C32: for the same configured filter, the analyze phase selects exactly
\* the groups the fetch phase selected for that filter (among groups present
\* in the store), also when a filter entry is a display name.
C32_SameSelection ==
    (mode = "analyze" /\ mainPc = "submit")
        => {todo[k].id : k \in 1..Len(todo)} = FetchSelected

\* C33: in the fetch phase at most one task is submitted per group
\* identifier, also when the parsed catalog holds two rows whose names
\* normalize to the same identifier.
C33_OneTaskPerGroup ==
    mode = "registry"
        => \A i, j \in 1..(idx - 1) : i # j => todo[i].id # todo[j].id

\* C34 (as claimed): when two in-scope groups are configured with the same
\* channel id, the chat rows after the fetch phase do not depend on the
\* order in which the two groups' tasks run: once both tasks have returned,
\* every row carries the group-id it carries when the first group's task
\* runs before the second's.
C34_AttributionOrderFree ==
    (mode = "slack" /\ slackAPI = SharedChannel
        /\ \A t \in SlackTasks : sPc[t] = "idle" /\ sFetches[t] >= 1)
        => \A r \in slack_messages : r.sig_id = SigOf(1).id

\* C35: if a conversations.history page request fails during a chat fetch,
\* that fetch call writes no chat message to the store.
C35_FailedHistoryWritesNothing ==
    mode = "slack" =>
        \A t \in SlackTasks :
            /\ sHistFailed[t] => ~sWrote[t]
            /\ sPc[t] \in {"wait_history", "history"} => ~sWrote[t]

\* A fetch whose second history request failed after the first page had
\* delivered messages has returned, its error logged, while the store
\* already holds rows of an earlier fetch.
C35_Witness ==
    /\ mode = "slack" /\ sHistFailed[1] /\ sPc[1] = "idle"
    /\ Len(allMessages[1]) = 2
    /\ fetch_log # <<>> /\ fetch_log[Len(fetch_log)].status = "error"
    /\ slack_messages # {}

\* The status of the fetch_log row appended last for a group.
LastStatus(sigID) ==
    LET own == SelectSeq(fetch_log, LAMBDA e : e.sig_id = sigID /\ e.source_type = "slack")
    IN  IF own = <<>> THEN "none" ELSE own[Len(own)].status

\* C36 (as claimed): if a chat fetch appends a fetch_log row with status
\* success, every message collected from the history pages of that fetch is
\* present in the store.
C36_SuccessMeansStored ==
    mode = "slack" =>
        \A t \in SlackTasks :
            (sPc[t] = "idle" /\ sFetches[t] >= 1
                /\ LastStatus(SigOf(t).id) = "success")
            => \A k \in 1..Len(allMessages[t]) :
                  \E r \in slack_messages :
                      /\ r.channel_id = SigOf(t).slack_channel_id
                      /\ r.message_ts = allMessages[t][k].ts

\* C37 (as claimed): the history pagination loop of a chat fetch issues
\* only finitely many requests for every server behaviour: a fetch that
\* waits to request a history page eventually leaves the pagination loop
\* (for its store loop, or by returning).
C37_PaginationEnds ==
    \A t \in SlackTasks :
        (sPc[t] = "wait_history") ~> (sPc[t] \in {"store", "idle"})

\* C38: whenever every adapter call eventually returns, FetchOnly
\* eventually returns (the worker pool never deadlocks), for every
\* worker-limit value the fetch command can pass to the pipeline.
C38_FetchReturns ==
    (mode = "fetch" /\ mainPc = "start")
        ~> (mode = "fetch" /\ mainPc = "returned")

\* FetchOnly of the fetch command has returned without error after its
\* tasks ran, for a --workers flag of 0 (the limit passed is the default).
C38_Witness ==
    /\ cfg.Command = "fetch" /\ cfg.Format = "json"
    /\ cfg.Workers = DefaultWorkers
    /\ mode = "fetch" /\ mainPc = "returned" /\ result = "ok"
    /\ idx > 1 /\ sem = 0

\* C39 (as claimed): the transcript parser's output never contains two
\* consecutive byte-equal lines, for every input sequence of dialog lines.
C39_NoEqualNeighbours ==
    mode = "vtt" =>
        \A i \in 1..(Len(textLines) - 1) : textLines[i] # textLines[i + 1]

\* C40 (as claimed): the LLM call count in the run statistics of a
\* DigestReport equals the number of LLM completion calls issued during
\* that analyze run (cache hits not counted).
C40_CallCountExact ==
    (mode = "analyze" /\ digest # Nil)
        => digest[1].total_llm_calls = llmCalls

====
